---- MODULE Spec2Model ----
(***************************************************************************)
(* Model of the traffic-camera dashboard client.                           *)
(*                                                                         *)
(*  - DetectionPage (pages/Detection): feed mode controller, i.e. the      *)
(*    snapshot refresh timer, the HLS engine, the detection interval       *)
(*    timer, the detection WebSocket and the in-flight detection requests, *)
(*    together with the React effects that create and release them.        *)
(*  - PolygonEditor: the in-progress polygon and the zone handlers of the  *)
(*    page that round-trip zone edits through the backend.                 *)
(*                                                                         *)
(* One action is one browser event (click, timer tick, socket event,       *)
(* promise continuation) together with the render and the effect flush it  *)
(* triggers.                                                               *)
(***************************************************************************)
EXTENDS Integers, Sequences, FiniteSets, TLC

\* ------------------------------------------------------------------ bounds
MaxInflight == 1      \* detection requests awaiting their response
MaxHandles == 4       \* ids available for timers / sockets / HLS instances
MaxPoints == 3        \* points placed in the in-progress polygon
MaxZones == 1         \* zones the editor creates (calls of generateId)
MaxZoneReqs == 1      \* zone requests awaiting their response

\* ------------------------------------------------------------- JS values
NullV == [kind |-> "null"]
UndefinedV == [kind |-> "undefined"]
\* truthiness of an object-or-null/undefined value
Truthy(v) == v # NullV /\ v # UndefinedV

\* -------------------------------------------------------------- cameras
\* A camera context is the pair of search parameters (id, url).  The url is
\* kept as a path and an extension so that the stream test can be computed.
NoUrl == [path |-> "", ext |-> "", query |-> <<>>]
\* a query parameter of a url: key=n, or key=<text> when not numeric
Param(key, n, numeric) == [kind |-> "param", k |-> key, n |-> n,
                           numeric |-> numeric]
CamA == [id |-> "A", url |-> [path |-> "http://cams/a", ext |-> ".jpg",
                              query |-> <<>>]]
CamB == [id |-> "B", url |-> [path |-> "http://cams/b", ext |-> ".M3U8",
                              query |-> <<>>]]
CamC == [id |-> "C", url |-> [path |-> "http://cams/c", ext |-> ".jpg",
                              query |-> <<Param("t", 5, TRUE),
                                          Param("a", 1, TRUE)>>]]
Cameras == {CamA, CamB, CamC}

\* String.prototype.toLowerCase on the extensions that occur
ToLowerCase(s) == IF s = ".M3U8" THEN ".m3u8" ELSE s
\* cameraUrl.toLowerCase().includes(".m3u8")
IsM3u8(cam) == ToLowerCase(cam.url.ext) = ".m3u8"
HasUrl(cam) == cam.url # NoUrl
HasId(cam) == cam.id # ""

\* ---------------------------------------------------------------- zones
ZoneTypes == {"normal", "parking", "traffic_light", "stop_line"}
ZONE_COLORS == <<"#00FF00", "#FF8800", "#00FFFF", "#FF00FF", "#FFFF00",
                 "#8800FF">>
NullId == "null"
\* generateId(): a string no other zone carries
GenerateId(n) == "zone_" \o ToString(n)
MakeZoneLinkKept(id, name, points, type, link, count) ==
  [id |-> id,
   name |-> IF name # "" THEN name ELSE "Zone " \o ToString(count + 1),
   points |-> points,
   is_parking_zone |-> type = "parking",
   is_traffic_light |-> type = "traffic_light",
   is_red_light |-> FALSE,
   is_stop_line |-> type = "stop_line",
   linked_traffic_light_id |-> link,
   color |-> IF type = "traffic_light" THEN "#FFFF00"
             ELSE IF type = "stop_line" THEN "#FFFFFF"
             ELSE ZONE_COLORS[(count % Len(ZONE_COLORS)) + 1]]
\* the object literal built by handleSaveZone; count is zones.length
MakeZone(id, name, points, type, link, count) ==
  [id |-> id,
   name |-> IF name # "" THEN name ELSE "Zone " \o ToString(count + 1),
   points |-> points,
   is_parking_zone |-> type = "parking",
   is_traffic_light |-> type = "traffic_light",
   is_red_light |-> FALSE,
   is_stop_line |-> type = "stop_line",
   linked_traffic_light_id |-> IF type = "stop_line" THEN link ELSE NullId,
   color |-> IF type = "traffic_light" THEN "#FFFF00"
             ELSE IF type = "stop_line" THEN "#FFFFFF"
             ELSE ZONE_COLORS[(count % Len(ZONE_COLORS)) + 1]]
NoZone == MakeZone("", "none", <<>>, "normal", "", 0)
Range(seq) == {seq[i] : i \in 1..Len(seq)}
\* zones.filter((z) => z.is_traffic_light)
TrafficLightZones(zs) == {z \in Range(zs) : z.is_traffic_light}
RemoveZone(zs, zid) == SelectSeq(zs, LAMBDA z : z.id # zid)

\* how handleSaveZone returned: "short", "alert" or "saved" with the zone it
\* handed to onZoneAdd; "none" when another handler ran last
NoAttempt == [outcome |-> "none", zone |-> NoZone]
NoAnswer == [api |-> "none", outcome |-> "none"]
\* lastEvent is kept only in behaviours that start with it switched on
NoEvent == "none"
Unrecorded == "unrecorded"

\* ------------------------------------------------------------- variables
VARIABLES
  mounted,            \* the DetectionPage component is mounted
  hlsMode,            \* how the browser plays HLS: "native" or "mse"
  camera,             \* search parameters (cameraId, cameraUrl)
  isDetecting, isEditing,
  result, violations, frameSize, syncedFrame, debugInfo,
  zones,              \* local copy of the camera's zone list
  timers,             \* active intervals: [id, kind, cam]
  refreshHandle,      \* interval captured by the refresh effect's cleanup
  detectIntervalRef,  \* detectIntervalRef.current (0 = null)
  sockets,            \* sockets not yet closed: [id, cam, readyState]
  wsRef,              \* wsRef.current (0 = null)
  wsSent,             \* payloads handed to ws.send
  hls,                \* live Hls instances: [id, cam]
  hlsRef,             \* hlsRef.current (0 = null)
  hlsCleanup,         \* the last run of the HLS effect returned a cleanup
  detectReqs,         \* detection requests in flight, counted per camera
  getZonesReqs,       \* getZones requests in flight (camera ids)
  zoneReqs,           \* add / delete / save zone requests in flight
  serverZones,        \* the backend's zone list per camera id
  currentPoints, zoneName, zoneType, linkedTrafficLightId,
  nextZoneId,         \* source of generateId()
  saveAttempt,        \* how handleSaveZone returned, if it ran last
  lastAnswer,         \* the backend's answer to a zone request, if the
                      \* last step delivered one
  lastEvent,          \* the socket event or detection answer the last step
                      \* handled, if it handled one
  storage,            \* localStorage: the item under STORAGE_KEY
  selectedCameras,    \* Index: the selectedCameras state
  indexPhase,         \* Index: "unmounted", "settling", "ready", "crashed"
  queuedCameras,      \* Index: the state update queued by the load effect
  storedAtStart,      \* the item under STORAGE_KEY when Index mounted
  props,              \* the properties a compositor is rendered with
  canvas,             \* what the last repaint drew
  mapped,             \* the last point taken to the viewport and back
  now,                \* Date.now(), in ms since the page was opened
  sentUrls,           \* the image urls handed to detectVehicles, in order
  dialogOpen,         \* Index: the dialogOpen state
  tempSelected,       \* CameraSelectDialog: the tempSelected state
  toggled,            \* a checkbox of the dialog was toggled since it mounted
  titleMounted,       \* TypewriterTitle is mounted
  safeLines,          \* TypewriterTitle: the non-empty lines, as character lists
  loop,               \* TypewriterTitle: the loop property
  lineIndex, charIndex, shown,
  pending,            \* TypewriterTitle: timeouts set and not yet fired
  composerMounted,    \* ChatComposer is mounted
  draft,              \* ChatComposer: the text state
  attachments,        \* ChatComposer: the attachments state
  nextFile,           \* source of uid() and of URL.createObjectURL
  objectUrls          \* per object url created: how often it was revoked

feedVars == <<mounted, hlsMode, camera, isDetecting, result, violations,
              frameSize, syncedFrame, debugInfo, timers, refreshHandle,
              detectIntervalRef, sockets, wsRef, wsSent, hls, hlsRef,
              hlsCleanup, detectReqs, getZonesReqs>>
zoneVars == <<zones, zoneReqs, serverZones>>
editorVars == <<isEditing, currentPoints, zoneName, zoneType,
                linkedTrafficLightId, nextZoneId, saveAttempt, lastAnswer>>
dialogVars == <<dialogOpen, tempSelected, toggled>>
indexVars == <<storage, selectedCameras, indexPhase, queuedCameras,
               storedAtStart, dialogVars>>
titleVars == <<titleMounted, safeLines, loop, lineIndex, charIndex, shown,
               pending>>
composerVars == <<composerMounted, draft, attachments, nextFile, objectUrls>>
\* the Search page
searchVars == <<titleVars, composerVars>>
canvasVars == <<props, canvas, mapped>>
\* the Index page, the compositors and the Search page, which no
\* DetectionPage handler touches
asideVars == <<indexVars, canvasVars, searchVars>>
logVars == <<now, sentUrls>>
vars == <<feedVars, lastEvent, zoneVars, editorVars, asideVars, logVars>>

Record(ev) == IF lastEvent = Unrecorded THEN lastEvent ELSE ev

\* --------------------------------------------------------- handle ids
HandleIds == 1..MaxHandles
Ids(set) == {h.id : h \in set}
\* setInterval / new WebSocket / new Hls return a handle no live object has
Fresh(used) == CHOOSE i \in HandleIds \ used :
                 \A j \in HandleIds \ used : i <= j
HasFresh(used) == HandleIds \ used # {}
Without(set, id) == {h \in set : h.id # id}

\* --------------------------------------------------- backend answers
DefaultFrameSize == [width |-> 1920, height |-> 1080]
\* the detection result the backend computes for a camera
ResultOf(cam) == [kind |-> "result", cam |-> cam.id,
                  frame_width |-> 1280, frame_height |-> 720]
FrameOf(cam) == [kind |-> "frame", cam |-> cam.id]
Violation1 == [track_id |-> 1, zone_id |-> "z"]
\* DetectResponse bodies: violations may be missing from the JSON
DetectAnswers ==
  {[ok |-> TRUE, success |-> TRUE, hasResult |-> TRUE,
    hasViolations |-> hv, violations |-> vs] :
       hv \in BOOLEAN, vs \in {<<Violation1>>}}
  \cup {[ok |-> TRUE, success |-> FALSE, hasResult |-> FALSE,
         hasViolations |-> FALSE, violations |-> <<>>],
        [ok |-> FALSE, success |-> FALSE, hasResult |-> FALSE,
         hasViolations |-> FALSE, violations |-> <<>>]}
AsSent(present, list) == list
\* response.violations || []
OrEmpty(present, list) == IF present THEN list ELSE <<>>

\* ------------------------------------------------------------ rendering
\* the <video> element is rendered, so videoRef.current is set
VideoMounted(cam, det, sf) == HasUrl(cam) /\ IsM3u8(cam) /\ ~(det /\ Truthy(sf))
\* which media element the page shows
Surface(cam, det, sf) ==
  IF ~HasUrl(cam) THEN "none"
  ELSE IF IsM3u8(cam)
       THEN (IF det /\ Truthy(sf) THEN "annotated" ELSE "video")
       ELSE "snapshot"

\* -------------------------------------------------- effect cleanups
\* clearInterval(id) behind a null check
ClearInterval(tm, id) == IF id # 0 THEN Without(tm, id) ELSE tm
\* wsRef.current.close() behind a null check
CloseSocket(sk, ref) == IF ref # 0 THEN Without(sk, ref) ELSE sk
\* hlsRef.current.destroy() behind a null check
DestroyHls(hl, ref) == IF ref # 0 THEN Without(hl, ref) ELSE hl

\* cleanup of the snapshot refresh effect
RefreshEffectCleanup(tm, handle) == ClearInterval(tm, handle)

DetectEffectCleanupLeak(tm, sk, ref, wref) ==
  [timers |-> tm, sockets |-> sk, wsRef |-> wref]
\* cleanup of the detection effect; detectIntervalRef keeps the stale id
DetectEffectCleanup(tm, sk, ref, wref) ==
  [timers |-> ClearInterval(tm, ref), sockets |-> CloseSocket(sk, wref),
   wsRef |-> 0]

HlsEffectCleanupLeak(hl, ref) == [hls |-> hl, ref |-> 0]
\* cleanup of the HLS effect
HlsEffectCleanup(hl, ref) == [hls |-> DestroyHls(hl, ref), ref |-> 0]

KeptOnStop(v, stopped) == v
\* setResult(null) / setSyncedFrame(null) in the else branch of the
\* detection effect
ClearedOnStop(v, stopped) == IF stopped THEN NullV ELSE v

\* ---------------------------------------------------- effect bodies
\* Each body maps the handles left by the cleanups to the handles after the
\* effect has run.

\* snapshot refresh effect
RefreshBody(cam, tm, used) ==
  IF ~IsM3u8(cam)
  THEN [timers |-> tm \cup {[id |-> Fresh(used), kind |-> "refresh", cam |-> cam]},
        handle |-> Fresh(used)]
  ELSE [timers |-> tm, handle |-> 0]

\* HLS effect: early returns, native playback, hls.js, and a browser with
\* neither (the cleanup is returned all the same)
HlsBody(cam, det, sf, mode, hl, ref) ==
  IF ~IsM3u8(cam) \/ ~VideoMounted(cam, det, sf)
  THEN [hls |-> hl, ref |-> ref, cleanup |-> FALSE]
  ELSE IF det /\ Truthy(sf)
  THEN [hls |-> hl, ref |-> ref, cleanup |-> FALSE]
  ELSE IF mode = "native"
  THEN [hls |-> hl, ref |-> ref, cleanup |-> FALSE]
  ELSE IF mode = "mse"
  THEN LET kept == DestroyHls(hl, ref)
           id == Fresh(Ids(kept))
       IN [hls |-> kept \cup {[id |-> id, cam |-> cam]}, ref |-> id,
           cleanup |-> TRUE]
  ELSE [hls |-> hl, ref |-> ref, cleanup |-> TRUE]

\* the period of the detection interval, in ms
DetectPeriod == 3000
MaxSent == 3
\* the characters of a url, cut into the path, "?" and "&", and parameters
Sep(c) == [kind |-> "sep", k |-> c, n |-> 0, numeric |-> FALSE]
Text(t) == [kind |-> "text", k |-> t, n |-> 0, numeric |-> FALSE]
UrlText(url) ==
  <<Text(url.path), Text(url.ext)>> \o
  [i \in 1..(2 * Len(url.query)) |->
     IF i % 2 = 1 THEN Sep(IF i = 1 THEN "?" ELSE "&")
     ELSE url.query[i \div 2]]
\* the elements of seq at the positions in keep, in order
Kept(seq, keep) ==
  [j \in 1..Cardinality(keep) |->
     seq[CHOOSE i \in keep : Cardinality({k \in keep : k < i}) = j - 1]]
\* cameraUrl.replace(/[?&]t=\d+/g, "")
Cleaned(text) ==
  LET Hit(i) == /\ i < Len(text) /\ text[i].kind = "sep"
                /\ text[i + 1].kind = "param" /\ text[i + 1].k = "t"
                /\ text[i + 1].numeric
  IN Kept(text, {i \in DOMAIN text : ~Hit(i) /\ ~(i > 1 /\ Hit(i - 1))})
StaleKept(url, t) == UrlText(url) \o <<Sep("&"), Param("t", t, TRUE)>>
\* urlWithT: cleaned, then "?" or "&", then t=Date.now()
UrlWithT(url, t) ==
  LET cleaned == Cleaned(UrlText(url))
      sep == IF \E i \in DOMAIN cleaned : cleaned[i] = Sep("?")
             THEN "&" ELSE "?"
  IN cleaned \o <<Sep(sep), Param("t", t, TRUE)>>
\* the clock after dt more ms; it stands still while nothing is logged
Advance(dt) == IF sentUrls = Unrecorded THEN now ELSE now + dt
LogHasRoom == sentUrls = Unrecorded \/ Len(sentUrls) < MaxSent
Logged(url) == IF sentUrls = Unrecorded THEN sentUrls
               ELSE Append(sentUrls, url)
\* runDetectionForImage up to the await: the request it sends, if any
SendsDetect(cam) == HasUrl(cam) /\ HasId(cam)
WithDetect(reqs, cam) ==
  IF SendsDetect(cam) THEN [reqs EXCEPT ![cam] = @ + 1] ELSE reqs
InflightCount(reqs) ==
  LET RECURSIVE Sum(_)
      Sum(S) == IF S = {} THEN 0
                ELSE LET c == CHOOSE x \in S : TRUE
                     IN reqs[c] + Sum(S \ {c})
  IN Sum(Cameras)

\* detection effect, branch isDetecting
DetectBodyOn(cam, tm, used, ref, sk, reqs) ==
  IF IsM3u8(cam)
  THEN LET id == Fresh(Ids(sk))
       IN [timers |-> tm, ref |-> ref, wsRef |-> id, reqs |-> reqs,
           sockets |-> sk \cup {[id |-> id, cam |-> cam, readyState |-> "CONNECTING"]}]
  ELSE LET id == Fresh(used)
       IN [timers |-> tm \cup {[id |-> id, kind |-> "detect", cam |-> cam]},
           ref |-> id, wsRef |-> 0, reqs |-> WithDetect(reqs, cam),
           sockets |-> sk]

\* detection effect, branch not isDetecting (wsRef is null after the cleanup)
DetectBodyOff(tm, ref, sk, wref, reqs) ==
  [timers |-> ClearInterval(tm, ref), ref |-> 0,
   sockets |-> CloseSocket(sk, wref), wsRef |-> 0, reqs |-> reqs]

\* ------------------------------------------------- render + effect flush
\* The state after the page has re-rendered with camera cam2, detection flag
\* det2, annotated frame sf2 and result res2, and React has run the cleanups
\* of every effect whose dependencies changed and then their bodies, in
\* source order: getZones, refresh, HLS, detection.
Commit(cam2, det2, sf2, res2) ==
  LET m3u8 == IsM3u8(cam2)
      chZones == cam2.id # camera.id
      chRefresh == m3u8 # IsM3u8(camera)
      chDetect == <<det2, m3u8, cam2.id, cam2.url>>
                    # <<isDetecting, IsM3u8(camera), camera.id, camera.url>>
      \* the else branch of the detection effect clears both
      sf3 == ClearedOnStop(sf2, chDetect /\ ~det2)
      res3 == ClearedOnStop(res2, chDetect /\ ~det2)
      chHls == <<m3u8, cam2.url, det2, sf3>>
                 # <<IsM3u8(camera), camera.url, isDetecting, syncedFrame>>
      \* cleanups
      tmA == IF chRefresh THEN RefreshEffectCleanup(timers, refreshHandle)
             ELSE timers
      hc == IF chHls /\ hlsCleanup THEN HlsEffectCleanup(hls, hlsRef)
            ELSE [hls |-> hls, ref |-> hlsRef]
      dc == IF chDetect
            THEN DetectEffectCleanup(tmA, sockets, detectIntervalRef, wsRef)
            ELSE [timers |-> tmA, sockets |-> sockets, wsRef |-> wsRef]
      tmC == dc.timers
      skC == dc.sockets
      wsC == dc.wsRef
      hlC == hc.hls
      hrC == hc.ref
      \* bodies
      used0 == Ids(tmC) \cup {detectIntervalRef}
      rb == IF chRefresh THEN RefreshBody(cam2, tmC, used0)
            ELSE [timers |-> tmC, handle |-> refreshHandle]
      hb == IF chHls THEN HlsBody(cam2, det2, sf3, hlsMode, hlC, hrC)
            ELSE [hls |-> hlC, ref |-> hrC, cleanup |-> hlsCleanup]
      used1 == Ids(rb.timers) \cup {detectIntervalRef}
      db == IF ~chDetect
            THEN [timers |-> rb.timers, ref |-> detectIntervalRef,
                  sockets |-> skC, wsRef |-> wsC, reqs |-> detectReqs]
            ELSE IF det2
            THEN DetectBodyOn(cam2, rb.timers, used1, detectIntervalRef,
                              skC, detectReqs)
            ELSE DetectBodyOff(rb.timers, detectIntervalRef, skC, wsC,
                               detectReqs)
  IN /\ Cardinality(HandleIds \ (Ids(timers) \cup {detectIntervalRef})) >= 2
     /\ HasFresh(Ids(sockets))
     /\ HasFresh(Ids(hls))
     /\ InflightCount(db.reqs) <= MaxInflight
     /\ db.reqs # detectReqs => LogHasRoom
     /\ now' = IF db.reqs # detectReqs THEN Advance(1) ELSE now
     /\ sentUrls' = IF db.reqs # detectReqs
                    THEN Logged(UrlWithT(cam2.url, Advance(1)))
                    ELSE sentUrls
     /\ camera' = cam2
     /\ isDetecting' = det2
     /\ syncedFrame' = sf3
     /\ result' = res3
     /\ timers' = db.timers
     /\ refreshHandle' = rb.handle
     /\ detectIntervalRef' = db.ref
     /\ sockets' = db.sockets
     /\ wsRef' = db.wsRef
     /\ hls' = hb.hls
     /\ hlsRef' = hb.ref
     /\ hlsCleanup' = hb.cleanup
     /\ detectReqs' = db.reqs
     /\ getZonesReqs' = IF chZones /\ HasId(cam2)
                        THEN getZonesReqs \cup {cam2.id} ELSE getZonesReqs

\* ---------------------------------------------------------------- Init
\* The page right after mount: first render and first run of every effect.
HlsModes == {"native", "mse"}
CameraIds == {c.id : c \in Cameras}
EmptyStore == [id \in CameraIds |-> <<>>]

PageInit(c0, mode, store, loaded) ==
    LET rb == RefreshBody(c0, {}, {})
        hb == HlsBody(c0, FALSE, NullV, mode, {}, 0)
    IN /\ mounted = TRUE
       /\ hlsMode = mode
       /\ camera = c0
       /\ isDetecting = FALSE
       /\ isEditing = FALSE
       /\ result = NullV
       /\ violations = <<>>
       /\ zones = IF loaded THEN store[c0.id] ELSE <<>>
       /\ frameSize = DefaultFrameSize
       /\ syncedFrame = NullV
       /\ debugInfo = ""
       /\ timers = rb.timers
       /\ refreshHandle = rb.handle
       /\ detectIntervalRef = 0
       /\ sockets = {}
       /\ wsRef = 0
       /\ wsSent = {}
       /\ hls = hb.hls
       /\ hlsRef = hb.ref
       /\ hlsCleanup = hb.cleanup
       /\ detectReqs = [c \in Cameras |-> 0]
       /\ getZonesReqs = IF HasId(c0) /\ ~loaded THEN {c0.id} ELSE {}
       /\ zoneReqs = {}
       /\ serverZones = store
       /\ currentPoints = <<>>
       /\ zoneName = ""
       /\ zoneType = "normal"
       /\ linkedTrafficLightId = ""
       /\ nextZoneId = 1
       /\ saveAttempt = NoAttempt
       /\ lastAnswer = NoAnswer

\* the Index page is not mounted and no compositor has painted
NoItem == [kind |-> "null", text |-> <<>>]
NoUpdate == [kind |-> "none", list |-> <<>>]
NoProps == [kind |-> "none"]
NoMapping == [kind |-> "none"]
NoCanvas == [kind |-> "none", zones |-> <<>>, boxes |-> <<>>, progress |-> <<>>]
DialogIdle == dialogOpen = FALSE /\ tempSelected = <<>> /\ toggled = FALSE
IndexIdle ==
  /\ storage = NoItem /\ selectedCameras = <<>>
  /\ indexPhase = "unmounted" /\ queuedCameras = NoUpdate
  /\ storedAtStart = NoItem
  /\ DialogIdle
TitleIdle ==
  /\ titleMounted = FALSE /\ safeLines = <<>> /\ loop = TRUE
  /\ lineIndex = 0 /\ charIndex = 0 /\ shown = <<>> /\ pending = {}
ComposerIdle ==
  /\ composerMounted = FALSE /\ draft = "" /\ attachments = <<>>
  /\ nextFile = 1 /\ objectUrls = <<>>
SearchIdle == TitleIdle /\ ComposerIdle
CanvasIdle == props = NoProps /\ canvas = NoCanvas /\ mapped = NoMapping
LogIdle == now = 0 /\ sentUrls = Unrecorded

Init ==
  /\ \E c0 \in Cameras, mode \in HlsModes : PageInit(c0, mode, EmptyStore, FALSE)
  /\ lastEvent = Unrecorded /\ LogIdle
  /\ IndexIdle /\ CanvasIdle /\ SearchIdle

\* ------------------------------------------------------ page actions
pageRest == <<mounted, hlsMode, asideVars, violations, frameSize, debugInfo, wsSent>>

ControlNeverDisabled(editing) == FALSE
\* disabled={isEditing} on the Start / Stop button
ControlDisabled(editing) == editing
\* Start / Stop button: setIsDetecting(!isDetecting)
ToggleDetection ==
  /\ mounted /\ HasUrl(camera) /\ ~ControlDisabled(isEditing)
  /\ Commit(camera, ~isDetecting, syncedFrame, result)
  /\ lastEvent' = Record(NoEvent)
  /\ UNCHANGED <<pageRest, zoneVars, editorVars>>

\* the search parameters change under the mounted page
SwitchCamera(c2) ==
  /\ mounted /\ c2 # camera
  /\ Commit(c2, isDetecting, syncedFrame, result)
  /\ lastEvent' = Record(NoEvent)
  \* the editor is unmounted with the page body when there is no url
  /\ IF HasUrl(c2)
     THEN UNCHANGED <<currentPoints, zoneName, zoneType, linkedTrafficLightId>>
     ELSE /\ currentPoints' = <<>>
          /\ zoneName' = ""
          /\ zoneType' = "normal"
          /\ linkedTrafficLightId' = ""
  /\ UNCHANGED <<pageRest, zoneVars, isEditing, nextZoneId, saveAttempt,
                 lastAnswer>>

\* a tick of the 3 s detection interval: runDetectionForImage of the closure
DetectTick(t) ==
  /\ t \in timers /\ t.kind = "detect"
  /\ SendsDetect(t.cam)
  /\ InflightCount(detectReqs) < MaxInflight
  /\ detectReqs' = WithDetect(detectReqs, t.cam)
  /\ LogHasRoom
  /\ now' = Advance(DetectPeriod)
  /\ sentUrls' = Logged(UrlWithT(t.cam.url, Advance(DetectPeriod)))
  /\ lastEvent' = Record(NoEvent)
  /\ UNCHANGED <<mounted, hlsMode, asideVars, camera, isDetecting, result, violations,
                 frameSize, syncedFrame, debugInfo, timers, refreshHandle,
                 detectIntervalRef, sockets, wsRef, wsSent, hls, hlsRef,
                 hlsCleanup, getZonesReqs, zoneVars, editorVars>>

\* how runDetectionForImage leaves its try block for answer a: the fetch
\* rejected, the answer is not a success with a result, or it is
DetectEvent(a) == IF ~a.ok THEN "rejected"
                  ELSE IF ~(a.success /\ a.hasResult) THEN "nonSuccess"
                  ELSE "detected"
\* runDetectionForImage after the await, for a request sent for camera c
DetectResponse(c, a) ==
  /\ detectReqs[c] > 0
  /\ detectReqs' = [detectReqs EXCEPT ![c] = @ - 1]
  /\ lastEvent' = Record(DetectEvent(a))
  /\ IF ~mounted
     THEN UNCHANGED <<result, violations, frameSize, debugInfo>>
     ELSE IF a.ok /\ a.success /\ a.hasResult
     THEN /\ result' = ResultOf(c)
          /\ violations' = OrEmpty(a.hasViolations, a.violations)
          /\ frameSize' = [width |-> ResultOf(c).frame_width,
                           height |-> ResultOf(c).frame_height]
          /\ debugInfo' = "Detected"
     ELSE /\ debugInfo' = "Error"
          /\ UNCHANGED <<result, violations, frameSize>>
  /\ UNCHANGED <<mounted, hlsMode, asideVars, logVars, camera, isDetecting, syncedFrame, timers,
                 refreshHandle, detectIntervalRef, sockets, wsRef, wsSent,
                 hls, hlsRef, hlsCleanup, getZonesReqs, zoneVars, editorVars>>

\* ---------------------------------------------------- socket events
\* what the server may push; "garbage" is a payload JSON.parse rejects
WsMessages ==
  {[type |-> "detection_result", hasResult |-> TRUE, hasViolations |-> hv,
    hasFrame |-> hf] : hv \in BOOLEAN, hf \in BOOLEAN}
  \cup {[type |-> "detection_result", hasResult |-> FALSE,
         hasViolations |-> TRUE, hasFrame |-> TRUE]}
  \cup {[type |-> t, hasResult |-> FALSE, hasViolations |-> FALSE,
         hasFrame |-> FALSE] : t \in {"connected", "error", "garbage"}}

\* ws.onopen
WsOpen(s) ==
  /\ s \in sockets /\ s.readyState = "CONNECTING"
  /\ sockets' = (sockets \ {s}) \cup {[s EXCEPT !.readyState = "OPEN"]}
  /\ debugInfo' = "Connecting"
  /\ lastEvent' = Record(NoEvent)
  /\ wsSent' = wsSent \cup {[socket |-> s.cam.id, video_url |-> s.cam.url,
                             send_frame |-> TRUE]}
  /\ UNCHANGED <<mounted, hlsMode, asideVars, logVars, camera, isDetecting, result, violations,
                 frameSize, syncedFrame, timers, refreshHandle,
                 detectIntervalRef, wsRef, hls, hlsRef, hlsCleanup,
                 detectReqs, getZonesReqs, zoneVars, editorVars>>

\* the branch of ws.onmessage that message m takes
WsEvent(m) == IF m.type = "detection_result"
              THEN (IF m.hasResult THEN "result" ELSE "malformed")
              ELSE IF m.type = "garbage" THEN "unparseable"
              ELSE IF m.type = "error" THEN "errorMessage"
              ELSE "connected"
\* ws.onmessage; the browser delivers messages only to an OPEN socket
WsMessage(s, m) ==
  /\ s \in sockets /\ s.readyState = "OPEN"
  /\ lastEvent' = Record(WsEvent(m))
  /\ IF m.type = "detection_result" /\ m.hasResult
     THEN /\ Commit(camera, isDetecting,
                    IF m.hasFrame THEN FrameOf(s.cam) ELSE syncedFrame,
                    ResultOf(s.cam))
          /\ violations' = OrEmpty(m.hasViolations, <<Violation1>>)
          /\ frameSize' = [width |-> ResultOf(s.cam).frame_width,
                           height |-> ResultOf(s.cam).frame_height]
          /\ debugInfo' = "Vehicles"
     ELSE IF m.type = "detection_result"
     \* data.result is undefined: the two setters before the property access
     \* that throws have been called
     THEN /\ Commit(camera, isDetecting, syncedFrame, UndefinedV)
          /\ violations' = OrEmpty(m.hasViolations, <<Violation1>>)
          /\ UNCHANGED <<frameSize, debugInfo>>
     ELSE /\ Commit(camera, isDetecting, syncedFrame, result)
          /\ debugInfo' = CASE m.type = "connected" -> "Connected"
                            [] m.type = "error" -> "Error"
                            [] OTHER -> debugInfo
          /\ UNCHANGED <<violations, frameSize>>
  /\ UNCHANGED <<mounted, hlsMode, asideVars, wsSent, zoneVars, editorVars>>

ClosedOnSocketError(sk, s) == sk \ {s}
\* the sockets after ws.onerror ran: the handler only sets the status string
AfterSocketError(sk, s) == sk
\* ws.onerror
WsError(s) ==
  /\ s \in sockets
  /\ debugInfo' = "WebSocket error"
  /\ lastEvent' = Record("socketError")
  /\ sockets' = AfterSocketError(sockets, s)
  /\ UNCHANGED <<mounted, hlsMode, asideVars, logVars, camera, isDetecting, result, violations,
                 frameSize, syncedFrame, timers, refreshHandle,
                 detectIntervalRef, wsRef, wsSent, hls, hlsRef,
                 hlsCleanup, detectReqs, getZonesReqs, zoneVars, editorVars>>

\* ws.onclose after the server or the network ended the connection
WsClose(s) ==
  /\ s \in sockets
  /\ sockets' = sockets \ {s}
  /\ lastEvent' = Record(NoEvent)
  /\ UNCHANGED <<mounted, hlsMode, asideVars, logVars, camera, isDetecting, result, violations,
                 frameSize, syncedFrame, debugInfo, timers, refreshHandle,
                 detectIntervalRef, wsRef, wsSent, hls, hlsRef, hlsCleanup,
                 detectReqs, getZonesReqs, zoneVars, editorVars>>

\* the page is unmounted: the cleanup of every effect runs
Unmount ==
  /\ mounted
  /\ mounted' = FALSE
  /\ lastEvent' = Record(NoEvent)
  /\ LET tmA == RefreshEffectCleanup(timers, refreshHandle)
         dc == DetectEffectCleanup(tmA, sockets, detectIntervalRef, wsRef)
         hc == IF hlsCleanup THEN HlsEffectCleanup(hls, hlsRef)
               ELSE [hls |-> hls, ref |-> hlsRef]
     IN /\ timers' = dc.timers
        /\ sockets' = dc.sockets
        /\ wsRef' = dc.wsRef
        /\ hls' = hc.hls
        /\ hlsRef' = hc.ref
  /\ UNCHANGED <<hlsMode, asideVars, logVars, camera, isDetecting, result, violations, frameSize,
                 syncedFrame, debugInfo, refreshHandle, detectIntervalRef,
                 wsSent, hlsCleanup, detectReqs, getZonesReqs, zoneVars,
                 editorVars>>

\* continuation of getZones(cameraId) sent for camera id cid
GetZonesResponse(cid, ok) ==
  /\ cid \in getZonesReqs
  /\ getZonesReqs' = getZonesReqs \ {cid}
  /\ lastEvent' = Record(NoEvent)
  /\ zones' = IF mounted /\ ok THEN serverZones[cid] ELSE zones
  /\ saveAttempt' = NoAttempt
  /\ lastAnswer' = NoAnswer
  /\ UNCHANGED <<mounted, hlsMode, asideVars, logVars, camera, isDetecting, result, violations,
                 frameSize, syncedFrame, debugInfo, timers, refreshHandle,
                 detectIntervalRef, sockets, wsRef, wsSent, hls, hlsRef,
                 hlsCleanup, detectReqs, zoneReqs, serverZones, isEditing,
                 currentPoints, zoneName, zoneType, linkedTrafficLightId,
                 nextZoneId>>

\* ------------------------------------------------ feed specification
Next ==
  \/ ToggleDetection
  \/ \E c \in Cameras : SwitchCamera(c)
  \/ \E t \in timers : DetectTick(t)
  \/ \E c \in Cameras, a \in DetectAnswers : DetectResponse(c, a)
  \/ \E s \in sockets : WsOpen(s)
  \/ \E s \in sockets, m \in WsMessages : WsMessage(s, m)
  \/ \E s \in sockets : WsError(s)
  \/ \E s \in sockets : WsClose(s)
  \/ Unmount
  \/ \E cid \in getZonesReqs, ok \in BOOLEAN : GetZonesResponse(cid, ok)

Spec == Init /\ [][Next]_vars

\* ==================================================== feed properties
\* a detection response for camera c is consumed by the step
DetectConsumed(c) == detectReqs'[c] < detectReqs[c]
DisplayState == <<result, violations, frameSize, syncedFrame, zones, debugInfo>>

\* C1: once the camera has been switched, no timer tick, socket message or
\* response that belongs to a previous camera updates result, violations,
\* frameSize, syncedFrame, zones or the status string.
C1_NoUpdateFromPreviousCamera ==
  [][/\ \A c \in Cameras :
          (DetectConsumed(c) /\ c # camera) => UNCHANGED DisplayState
     /\ \A cid \in getZonesReqs :
          (cid \notin getZonesReqs' /\ cid # camera.id)
             => UNCHANGED DisplayState
     /\ (DisplayState' # DisplayState /\ camera' = camera)
          => /\ \A s \in sockets : s.cam = camera
             /\ \A t \in timers : t.kind = "detect" => t.cam = camera]_vars

\* C2: toggling detection off clears result and syncedFrame, and the page
\* shows the raw media element again (video for a stream, snapshot image
\* otherwise).
C2_ToggleOffClears ==
  [][(isDetecting /\ ~isDetecting')
       => /\ result' = NullV
          /\ syncedFrame' = NullV
          /\ Surface(camera', isDetecting', syncedFrame')
               = (IF IsM3u8(camera') THEN "video" ELSE "snapshot")]_vars

\* a stream camera whose socket delivered a detection result, after Stop
C2_Witness ==
  /\ ~isDetecting /\ IsM3u8(camera) /\ debugInfo = "Vehicles"
  /\ result = NullV /\ syncedFrame = NullV

\* C3: when detection is toggled off the violations list is empty afterwards.
C3_ToggleOffClearsViolations ==
  [][(isDetecting /\ ~isDetecting') => violations' = <<>>]_vars

\* C4: while detection is off result stays null, and no detection response
\* changes violations, frameSize or the status string.
C4_OffIgnoresResponses ==
  [][(~isDetecting /\ ~isDetecting')
       => /\ result' = NullV
          /\ \A c \in Cameras :
               DetectConsumed(c)
                 => UNCHANGED <<violations, frameSize, debugInfo>>]_vars

RefreshTimers == {t \in timers : t.kind = "refresh"}
DetectTimers == {t \in timers : t.kind = "detect"}

Teardown == camera' # camera \/ (mounted /\ ~mounted')

ClickPoints == {[x |-> 100, y |-> 100]}
ZoneNames == {"", "Gate"}

ZoneMessage(api, cam, zone, zid, zs) ==
  [api |-> api, cam |-> cam.id, zone |-> zone, zoneId |-> zid, zones |-> zs]

\* handleZoneAdd up to the await
HandleZoneAdd(cam, reqs, zone) ==
  IF ~HasId(cam) THEN reqs
  ELSE reqs \cup {ZoneMessage("addZone", cam, zone, "", <<>>)}

TooFewPointsOffByOne(points) == Len(points) < 2
\* currentPoints.length < 3
TooFewPoints(points) == Len(points) < 3
MissingLinkUnchecked(type, link) == FALSE
\* zoneType === "stop_line" && !linkedTrafficLightId
MissingLink(type, link) == type = "stop_line" /\ link = ""

feedFrozen == <<mounted, hlsMode, asideVars, logVars, lastEvent, camera, isDetecting, result, violations,
                frameSize, syncedFrame, debugInfo, timers, refreshHandle,
                detectIntervalRef, sockets, wsRef, wsSent, hls, hlsRef,
                hlsCleanup, detectReqs, getZonesReqs>>
EditorShown == mounted /\ HasUrl(camera)

\* "+ Add Zone": onEditingChange(true)
StartEditing ==
  /\ EditorShown /\ ~isEditing
  /\ isEditing' = TRUE
  /\ saveAttempt' = NoAttempt
  /\ lastAnswer' = NoAnswer
  /\ UNCHANGED <<feedFrozen, zoneVars, currentPoints, zoneName, zoneType,
                 linkedTrafficLightId, nextZoneId>>

\* handleCanvasClick with the frame-space point of the click
HandleCanvasClick(p) ==
  /\ EditorShown /\ isEditing
  /\ Len(currentPoints) < MaxPoints
  /\ currentPoints' = Append(currentPoints, p)
  /\ saveAttempt' = NoAttempt
  /\ lastAnswer' = NoAnswer
  /\ UNCHANGED <<feedFrozen, zoneVars, isEditing, zoneName, zoneType,
                 linkedTrafficLightId, nextZoneId>>

\* handleUndo; the button is disabled without points
HandleUndo ==
  /\ EditorShown /\ isEditing /\ Len(currentPoints) > 0
  /\ currentPoints' = SubSeq(currentPoints, 1, Len(currentPoints) - 1)
  /\ saveAttempt' = NoAttempt
  /\ lastAnswer' = NoAnswer
  /\ UNCHANGED <<feedFrozen, zoneVars, isEditing, zoneName, zoneType,
                 linkedTrafficLightId, nextZoneId>>

\* the name input
SetZoneName(n) ==
  /\ EditorShown /\ isEditing
  /\ zoneName' = n
  /\ saveAttempt' = NoAttempt
  /\ lastAnswer' = NoAnswer
  /\ UNCHANGED <<feedFrozen, zoneVars, isEditing, currentPoints, zoneType,
                 linkedTrafficLightId, nextZoneId>>

\* the zone type selector
SetZoneType(t) ==
  /\ EditorShown /\ isEditing
  /\ zoneType' = t
  /\ linkedTrafficLightId' = IF t # "stop_line" THEN "" ELSE linkedTrafficLightId
  /\ saveAttempt' = NoAttempt
  /\ lastAnswer' = NoAnswer
  /\ UNCHANGED <<feedFrozen, zoneVars, isEditing, currentPoints, zoneName,
                 nextZoneId>>

\* the options of the link selector
LinkOptions(zs) == {""} \cup {z.id : z \in TrafficLightZones(zs)}
\* the link selector, rendered only for a stop line
SetLinkedTrafficLight(id) ==
  /\ EditorShown /\ isEditing /\ zoneType = "stop_line"
  /\ id \in LinkOptions(zones)
  /\ linkedTrafficLightId' = id
  /\ saveAttempt' = NoAttempt
  /\ lastAnswer' = NoAnswer
  /\ UNCHANGED <<feedFrozen, zoneVars, isEditing, currentPoints, zoneName,
                 zoneType, nextZoneId>>

\* A save attempt.  For a short polygon or a stop line without link the Save
\* button is disabled and handleSaveZone returns early on the same two tests;
\* either way nothing is sent and the in-progress zone stays.  Otherwise the
\* zone is built and handed to onZoneAdd (handleZoneAdd up to its await).
HandleSaveZone ==
  /\ EditorShown /\ isEditing
  /\ IF TooFewPoints(currentPoints)
     THEN /\ saveAttempt' = [outcome |-> "short", zone |-> NoZone]
          /\ UNCHANGED <<zoneReqs, currentPoints, zoneName, zoneType,
                         linkedTrafficLightId, isEditing, nextZoneId>>
     ELSE IF MissingLink(zoneType, linkedTrafficLightId)
     THEN /\ saveAttempt' = [outcome |-> "alert", zone |-> NoZone]
          /\ UNCHANGED <<zoneReqs, currentPoints, zoneName, zoneType,
                         linkedTrafficLightId, isEditing, nextZoneId>>
     ELSE LET zone == MakeZone(GenerateId(nextZoneId), zoneName,
                               currentPoints, zoneType,
                               linkedTrafficLightId, Len(zones))
          IN /\ nextZoneId <= MaxZones
             /\ Cardinality(zoneReqs) < MaxZoneReqs \/ ~HasId(camera)
             /\ nextZoneId' = nextZoneId + 1
             /\ zoneReqs' = HandleZoneAdd(camera, zoneReqs, zone)
             /\ saveAttempt' = [outcome |-> "saved", zone |-> zone]
             /\ currentPoints' = <<>>
             /\ zoneName' = ""
             /\ zoneType' = "normal"
             /\ linkedTrafficLightId' = ""
             /\ isEditing' = FALSE
  /\ lastAnswer' = NoAnswer
  /\ UNCHANGED <<feedFrozen, zones, serverZones>>

HandleCancelPointsKept ==
  /\ EditorShown /\ isEditing
  /\ zoneName' = ""
  /\ zoneType' = "normal"
  /\ linkedTrafficLightId' = ""
  /\ isEditing' = FALSE
  /\ saveAttempt' = NoAttempt
  /\ lastAnswer' = NoAnswer
  /\ UNCHANGED <<feedFrozen, zoneVars, nextZoneId, currentPoints>>
\* handleCancel
HandleCancel ==
  /\ EditorShown /\ isEditing
  /\ currentPoints' = <<>>
  /\ zoneName' = ""
  /\ zoneType' = "normal"
  /\ linkedTrafficLightId' = ""
  /\ isEditing' = FALSE
  /\ saveAttempt' = NoAttempt
  /\ lastAnswer' = NoAnswer
  /\ UNCHANGED <<feedFrozen, zoneVars, nextZoneId>>

editorKept == <<isEditing, currentPoints, zoneName, zoneType,
                linkedTrafficLightId, nextZoneId>>

\* handleZoneDelete up to the await; the zone list is hidden while editing
HandleZoneDelete(zid) ==
  /\ EditorShown /\ ~isEditing
  /\ zid \in {z.id : z \in Range(zones)}
  /\ Cardinality(zoneReqs) < MaxZoneReqs
  /\ zoneReqs' = IF ~HasId(camera) THEN zoneReqs
                 ELSE zoneReqs \cup {ZoneMessage("deleteZone", camera, NoZone, zid, <<>>)}
  /\ saveAttempt' = NoAttempt
  /\ lastAnswer' = NoAnswer
  /\ UNCHANGED <<feedFrozen, zones, serverZones, editorKept>>

\* handleZonesClear up to the await; "Clear All" needs a zone and no editing
HandleZonesClear ==
  /\ EditorShown /\ ~isEditing /\ Len(zones) > 0
  /\ Cardinality(zoneReqs) < MaxZoneReqs
  /\ zoneReqs' = IF ~HasId(camera) THEN zoneReqs
                 ELSE zoneReqs \cup {ZoneMessage("saveZones", camera, NoZone, "", <<>>)}
  /\ saveAttempt' = NoAttempt
  /\ lastAnswer' = NoAnswer
  /\ UNCHANGED <<feedFrozen, zones, serverZones, editorKept>>

\* -------------------------------------------------- zone backend
\* The zone endpoints of the backend: the store after a request that the
\* backend accepts.
BackendStore(store, m) ==
  CASE m.api = "addZone" -> Append(store, m.zone)
    [] m.api = "deleteZone" -> RemoveZone(store, m.zoneId)
    [] m.api = "saveZones" -> m.zones
\* "success": accepted; "failure": answered {success: false}; "reject": the
\* fetch promise rejects
BackendOutcomes == {"success", "failure", "reject"}

\* handleZoneAdd / handleZoneDelete after the await
AppliedEcho(zs, outcome, echoed) == IF outcome = "success" THEN echoed ELSE zs
\* handleZonesClear after the await: the answer's success flag is not read
AppliedClear(zs, outcome) == IF outcome # "reject" THEN <<>> ELSE zs

\* the backend answers a zone request and the handler's continuation runs
ZoneResponse(m, outcome) ==
  /\ m \in zoneReqs
  /\ zoneReqs' = zoneReqs \ {m}
  /\ LET store == IF outcome = "success"
                  THEN BackendStore(serverZones[m.cam], m)
                  ELSE serverZones[m.cam]
     IN /\ serverZones' = [serverZones EXCEPT ![m.cam] = store]
        /\ zones' = IF ~mounted THEN zones
                    ELSE IF m.api = "saveZones" THEN AppliedClear(zones, outcome)
                    ELSE AppliedEcho(zones, outcome, store)
  /\ lastAnswer' = [api |-> m.api, outcome |-> outcome]
  /\ saveAttempt' = NoAttempt
  /\ UNCHANGED <<feedFrozen, editorKept>>

\* ------------------------------------------- editor specification
\* the backend already holds a traffic-light zone saved in an earlier visit
StoredLight == MakeZone("zone_0", "Light", <<[x |-> 0, y |-> 0],
                        [x |-> 50, y |-> 0], [x |-> 50, y |-> 50]>>,
                        "traffic_light", "", 0)
\* and the page has loaded it: the zone list is on screen
InitEditor ==
  /\ PageInit(CamA, "mse", [EmptyStore EXCEPT !["A"] = <<StoredLight>>], TRUE)
  /\ lastEvent = Unrecorded /\ LogIdle
  /\ IndexIdle /\ CanvasIdle /\ SearchIdle

NextEditor ==
  \/ StartEditing
  \/ \E p \in ClickPoints : HandleCanvasClick(p)
  \/ HandleUndo
  \/ \E n \in ZoneNames : SetZoneName(n)
  \/ \E t \in ZoneTypes : SetZoneType(t)
  \/ \E id \in LinkOptions(zones) : SetLinkedTrafficLight(id)
  \/ HandleSaveZone
  \/ HandleCancel
  \/ \E zid \in {z.id : z \in Range(zones)} : HandleZoneDelete(zid)
  \/ HandleZonesClear
  \/ \E m \in zoneReqs, o \in BackendOutcomes : ZoneResponse(m, o)

SpecEditor == InitEditor /\ [][NextEditor]_vars

\* ---------------------------------------------- page specification
\* The page with its zones loaded, on a snapshot or a stream camera: the
\* detection control, the detection transports and their events, and the
\* editor being opened and closed.
InitPage ==
  /\ \E c0 \in {CamA, CamB} : PageInit(c0, "mse", EmptyStore, TRUE)
  /\ lastEvent = NoEvent /\ LogIdle
  /\ IndexIdle /\ CanvasIdle /\ SearchIdle

NextPage ==
  \/ ToggleDetection
  \/ \E t \in timers : DetectTick(t)
  \/ \E c \in Cameras, a \in DetectAnswers : DetectResponse(c, a)
  \/ \E s \in sockets : WsOpen(s)
  \/ \E s \in sockets, m \in WsMessages : WsMessage(s, m)
  \/ \E s \in sockets : WsError(s)
  \/ \E s \in sockets : WsClose(s)
  \/ StartEditing
  \/ \E p \in ClickPoints : HandleCanvasClick(p)
  \/ HandleCancel
  \/ Unmount

SpecPage == InitPage /\ [][NextPage]_vars

\* ================================================== editor properties
\* the step is a call of handleSaveZone
SaveStep == saveAttempt'.outcome # "none" /\ saveAttempt' # saveAttempt
InProgress == <<currentPoints, zoneName, zoneType, linkedTrafficLightId,
                isEditing>>

\* C7: a stop_line saved without a link is rejected (onZoneAdd is not called,
\* the in-progress polygon is kept); with a link, onZoneAdd gets a zone with
\* is_stop_line and the selected link, and once the backend echoes the zone
\* list the zone is in the local list with that link.
C7_StopLineNeedsLink ==
  [][/\ (SaveStep /\ zoneType = "stop_line" /\ linkedTrafficLightId = "")
          => /\ saveAttempt'.outcome \in {"short", "alert"}
             /\ saveAttempt'.zone = NoZone
             /\ UNCHANGED <<zoneReqs, InProgress>>
     /\ (SaveStep /\ zoneType = "stop_line" /\ linkedTrafficLightId # ""
           /\ ~TooFewPoints(currentPoints))
          => /\ saveAttempt'.outcome = "saved"
             /\ saveAttempt'.zone.is_stop_line
             /\ saveAttempt'.zone.linked_traffic_light_id = linkedTrafficLightId
             /\ \E m \in zoneReqs' \ zoneReqs :
                  m.api = "addZone" /\ m.zone = saveAttempt'.zone
     /\ \A m \in zoneReqs \ zoneReqs' :
          (m.api = "addZone" /\ lastAnswer'.outcome = "success")
             => \E z \in Range(zones') :
                  /\ z.id = m.zone.id
                  /\ z.is_stop_line = m.zone.is_stop_line
                  /\ z.linked_traffic_light_id = m.zone.linked_traffic_light_id
    ]_vars

\* the backend has echoed a stop line linked to the stored light
C7_Witness ==
  /\ lastAnswer = [api |-> "addZone", outcome |-> "success"]
  /\ \E z \in Range(zones) :
       z.is_stop_line /\ z.linked_traffic_light_id = StoredLight.id
  /\ StoredLight \in Range(zones)

\* C8: the link of every stop_line zone handed to onZoneAdd is the id of a
\* traffic-light zone in the zone list the editor holds at that moment.
C8_LinkNamesExistingLight ==
  [][(SaveStep /\ saveAttempt'.outcome = "saved"
        /\ saveAttempt'.zone.is_stop_line)
       => \E z \in TrafficLightZones(zones) :
            z.id = saveAttempt'.zone.linked_traffic_light_id]_vars

\* C9: the local zone list changes only with a success answer of the backend
\* and stays as it is on a non-success answer or a failed request.
C9_ZonesFollowBackendSuccess ==
  [][/\ zones' # zones => lastAnswer'.outcome = "success"
     /\ lastAnswer'.outcome \in {"failure", "reject"} => zones' = zones]_vars

\* C10: a save with fewer than 3 points is blocked: no request is sent and
\* points, name, role and editing flag stay as they are.
C10_ShortPolygonBlocked ==
  [][(SaveStep /\ Len(currentPoints) < 3)
       => /\ saveAttempt'.outcome = "short"
          /\ saveAttempt'.zone = NoZone
          /\ UNCHANGED <<zoneReqs, currentPoints, zoneName, zoneType,
                         isEditing>>]_vars

\* a named parking polygon of two points after a blocked save
C10_Witness ==
  /\ saveAttempt.outcome = "short" /\ isEditing
  /\ Len(currentPoints) = 2 /\ zoneName = "Gate" /\ zoneType = "parking"

\* ==================================================== page properties
\* C11: a socket message that cannot be processed (unparseable, or a
\* detection_result without its fields) leaves result, violations, frameSize
\* and syncedFrame as they were and the socket open.
C11_BadMessageDropped ==
  [][lastEvent' \in {"unparseable", "malformed"}
       => /\ UNCHANGED <<result, violations, frameSize, syncedFrame>>
          /\ sockets' = sockets]_vars

Transports == <<timers, sockets, hls, wsRef, hlsRef, detectIntervalRef,
                refreshHandle, wsSent>>
ErrorEvents == {"socketError", "errorMessage", "rejected", "nonSuccess"}

\* C12: a socket error, an error message, a rejected detection request or a
\* non-success detection answer changes the status string only: isDetecting
\* stays, no transport is closed, replaced or added, no request is sent.
C12_ErrorsOnlySetStatus ==
  [][lastEvent' \in ErrorEvents
       => /\ UNCHANGED <<isDetecting, Transports, camera, result, violations,
                         frameSize, syncedFrame, zones>>
          /\ \A c \in Cameras : detectReqs'[c] <= detectReqs[c]]_vars

\* an error was handled while detection ran on a live transport
C12_Witness ==
  /\ lastEvent \in ErrorEvents /\ isDetecting /\ mounted
  /\ debugInfo \in {"WebSocket error", "Error"}
  /\ timers \cup sockets # {}

\* C20: in a state where the editor is active isDetecting does not change.
C20_NoToggleWhileEditing ==
  [][isEditing => isDetecting' = isDetecting]_vars

\* the editor was opened while detection ran
C20_Witness == isEditing /\ isDetecting /\ mounted

\* ============================================================ numbers
\* A JS number is a binary floating-point value: NaN, Infinity, or m * 2^e
\* with a mantissa of MantissaBits bits (0 is m = 0, e = 0); every operation
\* rounds its exact result to the nearest such value, ties to the even
\* mantissa.  undefined stands for a missing property.  Only +Infinity occurs:
\* no operand below is negative where an infinity can arise.
MantissaBits == 8
Num(m, e) == [k |-> "num", m |-> m, e |-> e]
NaN == [k |-> "nan", m |-> 0, e |-> 0]
Infinity == [k |-> "inf", m |-> 0, e |-> 0]
UndefinedN == [k |-> "undefined", m |-> 0, e |-> 0]
Zero == Num(0, 0)
IsNum(a) == a.k = "num"
NotANumber(a) == a.k \in {"nan", "undefined"}

Abs(n) == IF n < 0 THEN 0 - n ELSE n
Sgn(n) == IF n < 0 THEN 0 - 1 ELSE 1
RECURSIVE BitLen(_)
BitLen(n) == IF n = 0 THEN 0 ELSE 1 + BitLen(n \div 2)

\* the number nearest to n * 2^e
Round(n, e) ==
  IF n = 0 THEN Zero
  ELSE LET a == Abs(n)
           k == BitLen(a) - MantissaBits
       IN IF k <= 0 THEN Num(Sgn(n) * a * 2^(0 - k), e + k)
          ELSE LET q == a \div 2^k
                   r == a % 2^k
                   half == 2^(k - 1)
                   up == r > half \/ (r = half /\ q % 2 = 1)
                   q2 == IF up THEN q + 1 ELSE q
               IN IF q2 = 2^MantissaBits
                  THEN Num(Sgn(n) * 2^(MantissaBits - 1), e + k + 1)
                  ELSE Num(Sgn(n) * q2, e + k)

\* a number literal or an integer-valued property
FromInt(i) == Round(i, 0)

\* a * b
FMul(a, b) ==
  IF IsNum(a) /\ IsNum(b) THEN Round(a.m * b.m, a.e + b.e)
  ELSE IF NotANumber(a) \/ NotANumber(b) THEN NaN
  ELSE IF a = Zero \/ b = Zero THEN NaN
  ELSE Infinity

\* a / b; the quotient keeps two guard bits and a sticky bit before rounding
FDiv(a, b) ==
  IF NotANumber(a) \/ NotANumber(b) THEN NaN
  ELSE IF ~IsNum(a) THEN (IF IsNum(b) THEN Infinity ELSE NaN)
  ELSE IF ~IsNum(b) THEN Zero
  ELSE IF b.m = 0 THEN (IF a.m = 0 THEN NaN ELSE Infinity)
  ELSE IF a.m = 0 THEN Zero
  ELSE LET num == Abs(a.m) * 2^(MantissaBits + 2)
           q == num \div Abs(b.m)
           sticky == IF num % Abs(b.m) = 0 THEN 0 ELSE 1
       IN Round(Sgn(a.m) * Sgn(b.m) * (2 * q + sticky),
                a.e - b.e - MantissaBits - 3)

Min(i, j) == IF i <= j THEN i ELSE j
\* a + b
FAdd(a, b) ==
  IF NotANumber(a) \/ NotANumber(b) THEN NaN
  ELSE IF ~IsNum(a) \/ ~IsNum(b) THEN Infinity
  ELSE IF a.m = 0 THEN b
  ELSE IF b.m = 0 THEN a
  ELSE LET em == Min(a.e, b.e)
       IN Round(a.m * 2^(a.e - em) + b.m * 2^(b.e - em), em)
\* a - b
FSub(a, b) == FAdd(a, IF IsNum(b) THEN Num(0 - b.m, b.e) ELSE b)

\* !v for a number
Falsy(v) == NotANumber(v) \/ v = Zero
NoDefault(v, d) == v
\* v || d
OrDefault(v, d) == IF Falsy(v) THEN d ELSE v
\* isFinite(v) && v !== 0
FiniteNonZero(v) == IsNum(v) /\ v.m # 0

\* ================================================== coordinate mapping
\* DetectionViewer: the guarded dimensions and the two scale factors
SafeFrameWidth(pr) == OrDefault(pr.frameWidth, FromInt(640))
SafeFrameHeight(pr) == OrDefault(pr.frameHeight, FromInt(360))
SafeContainerWidth(pr) == OrDefault(pr.containerWidth, FromInt(640))
SafeContainerHeight(pr) == OrDefault(pr.containerHeight, FromInt(360))
ScaleX(pr) == FDiv(SafeContainerWidth(pr), SafeFrameWidth(pr))
ScaleYFromWidth(pr) == FDiv(SafeContainerWidth(pr), SafeFrameWidth(pr))
ScaleY(pr) == FDiv(SafeContainerHeight(pr), SafeFrameHeight(pr))

\* PolygonEditor: the same four guards and two divisions
EditorSafe(v, d) == OrDefault(v, FromInt(d))
EditorScaleX(pr) == FDiv(EditorSafe(pr.containerWidth, 640),
                         EditorSafe(pr.frameWidth, 640))
EditorScaleY(pr) == FDiv(EditorSafe(pr.containerHeight, 360),
                         EditorSafe(pr.frameHeight, 360))

\* frame space to viewport space, as draw projects a point
ToViewport(pt, pr) == [x |-> FMul(pt.x, EditorScaleX(pr)),
                       y |-> FMul(pt.y, EditorScaleY(pr))]
\* where the browser reports a click on that viewport point
ClientOf(v, rect) == [x |-> FAdd(rect.left, v.x), y |-> FAdd(rect.top, v.y)]
ToFrameCoordsOriginKept(clientX, clientY, rect, pr) ==
  [x |-> FDiv(clientX, EditorScaleX(pr)), y |-> FDiv(clientY, EditorScaleY(pr))]
\* toFrameCoords
ToFrameCoords(clientX, clientY, rect, pr) ==
  [x |-> FDiv(FSub(clientX, rect.left), EditorScaleX(pr)),
   y |-> FDiv(FSub(clientY, rect.top), EditorScaleY(pr))]

\* ================================================== DetectionViewer
\* track_id of a detection or a violation: a number, null, or missing
NullTrack == [k |-> "null", n |-> 0]
UndefinedTrack == [k |-> "undefined", n |-> 0]
Track(n) == [k |-> "num", n |-> n]
CLASS_COLORS == [car |-> "#00FF00", motorcycle |-> "#FFFF00",
                 bus |-> "#FF8800", truck |-> "#FF00FF",
                 bicycle |-> "#00FFFF", person |-> "#0088FF"]
VIOLATION_COLOR == "#FF0000"
\* getColor
GetColor(className, isViolation) ==
  IF isViolation THEN VIOLATION_COLOR
  ELSE IF className \in DOMAIN CLASS_COLORS THEN CLASS_COLORS[className]
  ELSE "#00FF00"

FirstTrackIdOnly(vs) == IF vs = <<>> THEN {} ELSE {vs[1].track_id}
\* new Set(violations.map((v) => v.track_id))
ViolationTrackIds(vs) == {vs[i].track_id : i \in DOMAIN vs}
IsViolationNullIncluded(det, vs) ==
  det.track_id \in ViolationTrackIds(vs)
\* showViolations && det.track_id !== null && violationTrackIds.has(...);
\* the page renders the viewer with showViolations at its default, true
IsViolation(det, vs) ==
  det.track_id # NullTrack /\ det.track_id \in ViolationTrackIds(vs)

\* violations.find((v) => v.track_id === det.track_id)
FindViolation(det, vs) ==
  LET hits == {i \in DOMAIN vs : vs[i].track_id = det.track_id}
  IN IF hits = {} THEN 0 ELSE CHOOSE i \in hits : \A j \in hits : i <= j

\* one pass of the detections loop of draw: the rectangle, its colour and
\* line width, whether the label carries the track id, and the callout
DrawDetection(det, pr) ==
  LET isViolation == IsViolation(det, pr.violations)
      x1 == FMul(FromInt(det.bbox.x1), ScaleX(pr))
      y1 == FMul(FromInt(det.bbox.y1), ScaleY(pr))
      w == FMul(FSub(FromInt(det.bbox.x2), FromInt(det.bbox.x1)), ScaleX(pr))
      h == FMul(FSub(FromInt(det.bbox.y2), FromInt(det.bbox.y1)), ScaleY(pr))
      hit == FindViolation(det, pr.violations)
  IN [op |-> "strokeRect", x |-> x1, y |-> y1, w |-> w, h |-> h,
      strokeStyle |-> GetColor(det.class_name, isViolation),
      lineWidth |-> IF isViolation THEN 4 ELSE 3,
      labelHasTrack |-> det.track_id # NullTrack,
      callout |-> IF isViolation /\ hit # 0
                  THEN pr.violations[hit].duration_seconds ELSE 0 - 1]

\* a zone point (JSON numbers) as numbers, and its projection
PointNum(pt) == [x |-> FromInt(pt.x), y |-> FromInt(pt.y)]
Project(pt, sx, sy) == [x |-> FMul(PointNum(pt).x, sx),
                        y |-> FMul(PointNum(pt).y, sy)]
\* moveTo / lineTo over the points of a zone
PathOf(points, sx, sy) == [i \in 1..Len(points) |-> Project(points[i], sx, sy)]

NeverSkipped(zone) == FALSE
\* if (zone.points.length < 3) continue
Skipped(zone) == Len(zone.points) < 3

\* one pass of the zones loop of DetectionViewer's draw; reading points[0]
\* of a zone without points throws
DrawViewerZone(zone, pr) ==
  IF zone.points = <<>> THEN [op |-> "TypeError"]
  ELSE [op |-> "zone", id |-> zone.id,
        path |-> PathOf(zone.points, ScaleX(pr), ScaleY(pr)),
        fillStyle |-> IF zone.is_parking_zone THEN "rgba(255, 0, 0, 0.2)"
                      ELSE "rgba(0, 255, 0, 0.2)",
        strokeStyle |-> IF zone.color # "" THEN zone.color
                        ELSE IF zone.is_parking_zone THEN "#FF0000"
                        ELSE "#00FF00",
        lineWidth |-> 3,
        label |-> zone.name,
        labelX |-> FAdd(Project(zone.points[1], ScaleX(pr), ScaleY(pr)).x,
                        FromInt(5)),
        labelY |-> FAdd(Project(zone.points[1], ScaleX(pr), ScaleY(pr)).y,
                        FromInt(20))]

\* the zones a zones loop gets past its continue with, in order
Unskipped(seq) == SelectSeq(seq, LAMBDA z : ~Skipped(z))

\* draw of DetectionViewer: the zones loop, then the detections loop
DrawViewer(pr) ==
  [kind |-> "viewer",
   zones |-> [i \in 1..Len(Unskipped(pr.zones)) |->
              DrawViewerZone(Unskipped(pr.zones)[i], pr)],
   boxes |-> [i \in 1..Len(pr.detections) |-> DrawDetection(pr.detections[i], pr)],
   progress |-> <<>>]

\* ================================================== PolygonEditor: draw
\* zones.find((z) => z.id === id): its position, 0 when there is none
FindZone(zs, id) ==
  LET hits == {i \in DOMAIN zs : zs[i].id = id}
  IN IF hits = {} THEN 0 ELSE CHOOSE i \in hits : \A j \in hits : i <= j
\* linkedLight?.is_red_light
LinkedLightRed(zone, zs) ==
  LET i == FindZone(zs, zone.linked_traffic_light_id)
  IN i # 0 /\ zs[i].is_red_light
\* getZoneColor
GetZoneColor(zone, zs) ==
  IF zone.is_traffic_light
  THEN (IF zone.is_red_light THEN "rgba(255, 0, 0, 0.35)"
        ELSE "rgba(0, 255, 0, 0.35)")
  ELSE IF zone.is_stop_line
  THEN (IF LinkedLightRed(zone, zs) THEN "rgba(255, 0, 0, 0.4)"
        ELSE "rgba(255, 255, 255, 0.3)")
  ELSE IF zone.is_parking_zone THEN "rgba(255, 0, 0, 0.25)"
  ELSE "rgba(0, 255, 0, 0.25)"
\* getZoneStrokeColor
GetZoneStrokeColor(zone, zs) ==
  IF zone.is_stop_line
  THEN (IF LinkedLightRed(zone, zs) THEN "#FF0000" ELSE "#FFFFFF")
  ELSE IF zone.color # "" THEN zone.color ELSE "#00FF00"
\* the label: the name, a sign for the zone type and the light status
ZoneLabel(zone, zs) ==
  LET i == FindZone(zs, zone.linked_traffic_light_id)
  IN IF zone.is_traffic_light
     THEN [sign |-> "light", name |-> zone.name,
           status |-> IF zone.is_red_light THEN "red" ELSE "green"]
     ELSE IF zone.is_stop_line
     THEN [sign |-> "barrier", name |-> zone.name,
           status |-> IF i = 0 THEN "warning"
                      ELSE IF zs[i].is_red_light THEN "red" ELSE "green"]
     ELSE [sign |-> "", name |-> zone.name, status |-> ""]
\* points.reduce((s, p) => s + p.x, 0) / points.length, for x and y
RECURSIVE SumTo(_, _)
SumTo(nums, n) == IF n = 0 THEN Zero ELSE FAdd(SumTo(nums, n - 1), nums[n])
Center(points) ==
  [x |-> FDiv(SumTo([i \in DOMAIN points |-> FromInt(points[i].x)], Len(points)),
              FromInt(Len(points))),
   y |-> FDiv(SumTo([i \in DOMAIN points |-> FromInt(points[i].y)], Len(points)),
              FromInt(Len(points)))]
\* the dashed line from a stop line to its linked zone, <<>> when not drawn
LinkLine(zone, zs, pr) ==
  LET i == FindZone(zs, zone.linked_traffic_light_id)
  IN IF /\ zone.is_stop_line
        /\ zone.linked_traffic_light_id \notin {NullId, ""}
        /\ i # 0
        /\ Len(zs[IF i = 0 THEN 1 ELSE i].points) > 0
     THEN <<[x |-> FMul(Center(zone.points).x, EditorScaleX(pr)),
             y |-> FMul(Center(zone.points).y, EditorScaleY(pr))],
            [x |-> FMul(Center(zs[i].points).x, EditorScaleX(pr)),
             y |-> FMul(Center(zs[i].points).y, EditorScaleY(pr))]>>
     ELSE <<>>
\* one pass of the zones loop of PolygonEditor's draw
DrawEditorZone(zone, zs, pr) ==
  IF zone.points = <<>> THEN [op |-> "TypeError"]
  ELSE [op |-> "zone", id |-> zone.id,
        path |-> PathOf(zone.points, EditorScaleX(pr), EditorScaleY(pr)),
        fillStyle |-> GetZoneColor(zone, zs),
        strokeStyle |-> GetZoneStrokeColor(zone, zs),
        lineWidth |-> IF zone.is_traffic_light \/ zone.is_stop_line THEN 4 ELSE 3,
        dashed |-> zone.is_stop_line,
        label |-> ZoneLabel(zone, zs),
        labelX |-> FAdd(Project(zone.points[1], EditorScaleX(pr),
                                EditorScaleY(pr)).x, FromInt(5)),
        labelY |-> FAdd(Project(zone.points[1], EditorScaleX(pr),
                                EditorScaleY(pr)).y, FromInt(20)),
        link |-> LinkLine(zone, zs, pr)]
\* draw of PolygonEditor: the zones loop, then the polygon in progress
DrawEditor(pr, editing, points) ==
  [kind |-> "editor",
   zones |-> [i \in 1..Len(Unskipped(pr.zones)) |->
                DrawEditorZone(Unskipped(pr.zones)[i], pr.zones, pr)],
   boxes |-> <<>>,
   progress |-> IF editing /\ Len(points) > 0
                THEN PathOf(points, EditorScaleX(pr), EditorScaleY(pr))
                ELSE <<>>]

\* ================================================== the two canvases
\* the pages are left as constructed while a canvas is exercised
detectionVars == <<feedVars, lastEvent, zoneVars, editorVars, logVars>>
pageVars == <<detectionVars, searchVars>>
PageIdle ==
  PageInit(CamA, "mse", EmptyStore, TRUE) /\ lastEvent = Unrecorded /\ LogIdle

\* the draw effect of DetectionViewer
RepaintViewer ==
  /\ canvas' = DrawViewer(props)
  /\ UNCHANGED <<pageVars, indexVars, props, mapped>>

\* the draw effect of PolygonEditor
RepaintEditor ==
  /\ canvas' = DrawEditor(props, isEditing, currentPoints)
  /\ UNCHANGED <<pageVars, indexVars, props, mapped>>

\* a point of the in-progress polygon is projected by draw, the user clicks
\* exactly there, and handleCanvasClick maps the click back
MapPoint(pt, rect) ==
  LET v == ToViewport(PointNum(pt), props)
      c == ClientOf(v, rect)
  IN /\ mapped' = [kind |-> "mapped", p |-> PointNum(pt), rect |-> rect,
                   client |-> c,
                   back |-> ToFrameCoords(c.x, c.y, rect, props)]
     /\ UNCHANGED <<pageVars, indexVars, props, canvas>>

\* dimensions the page can hand down: reported sizes, 0 before the media or
\* the container has a size, and a frame size missing from a socket message
FrameWidths == {FromInt(1920), FromInt(1280), Zero, NaN, UndefinedN}
FrameHeights == {FromInt(1080), FromInt(720), Zero, UndefinedN}
ContainerWidths == {FromInt(800), FromInt(640), Zero}
ContainerHeights == {FromInt(450), FromInt(600), Zero, NaN}
FramePoints == {[x |-> 0, y |-> 0], [x |-> 11, y |-> 7], [x |-> 100, y |-> 100],
                [x |-> 300, y |-> 1000], [x |-> 1919, y |-> 33]}
\* getBoundingClientRect of the canvas: at the page origin, or inset
Rects == {[left |-> FromInt(0), top |-> FromInt(0)],
          [left |-> FromInt(16), top |-> FromInt(64)]}
SampleBox == [bbox |-> [x1 |-> 100, y1 |-> 100, x2 |-> 300, y2 |-> 300],
              class_name |-> "car", track_id |-> Track(1)]

InitCoords ==
  /\ PageIdle /\ IndexIdle /\ SearchIdle
  /\ \E fw \in FrameWidths, fh \in FrameHeights,
        cw \in ContainerWidths, ch \in ContainerHeights :
       props = [frameWidth |-> fw, frameHeight |-> fh,
                containerWidth |-> cw, containerHeight |-> ch,
                zones |-> <<>>, detections |-> <<SampleBox>>,
                violations |-> <<>>]
  /\ canvas = NoCanvas
  /\ mapped = NoMapping

NextCoords ==
  \/ RepaintViewer
  \/ \E pt \in FramePoints, rect \in Rects : MapPoint(pt, rect)

SpecCoords == InitCoords /\ [][NextCoords]_vars

\* ---- properties of the coordinate mapping
Positive(v) == IsNum(v) /\ v.m > 0
PositiveDims(pr) ==
  /\ Positive(pr.frameWidth) /\ Positive(pr.frameHeight)
  /\ Positive(pr.containerWidth) /\ Positive(pr.containerHeight)
\* a as an integer multiple of 2^em
Scaled(a, em) == a.m * 2^(a.e - em)
\* |a - b| <= tol, exactly
Within(a, b, tol) ==
  LET em == Min(Min(a.e, b.e), tol.e)
  IN Abs(Scaled(a, em) - Scaled(b, em)) <= Scaled(tol, em)
\* four roundings of relative size 2^-MantissaBits on a quantity no larger
\* than |p| + |origin| / scale
Tolerance(p, origin, scale) ==
  LET span == FAdd(Num(Abs(p.m), p.e), FDiv(origin, scale))
  IN Num(span.m, span.e + 3 - MantissaBits)

\* C13 as stated: projecting a frame point to the viewport and mapping it
\* back with toFrameCoords returns exactly that point
C13_RoundTripExact ==
  (mapped.kind = "mapped" /\ PositiveDims(props)) => mapped.back = mapped.p

\* C13: with positive dimensions, projecting a frame point to the viewport
\* and mapping it back with toFrameCoords returns the point up to the
\* rounding of the four floating-point operations involved
C13_RoundTripWithinRounding ==
  (mapped.kind = "mapped" /\ PositiveDims(props)) =>
    /\ Within(mapped.back.x, mapped.p.x,
              Tolerance(mapped.p.x, mapped.rect.left, EditorScaleX(props)))
    /\ Within(mapped.back.y, mapped.p.y,
              Tolerance(mapped.p.y, mapped.rect.top, EditorScaleY(props)))

\* a point away from both origins went through the round trip and did not
\* come back bit for bit
C13_Witness ==
  /\ mapped.kind = "mapped" /\ PositiveDims(props)
  /\ mapped.rect.left # Zero
  /\ mapped.p.x # Zero
  /\ mapped.back # mapped.p

\* ---- properties of the detection rectangle
\* the scenario's sizes: frame 1920x1080 shown in a viewport of 800x450
ScenarioDims(pr) ==
  /\ pr.frameWidth = FromInt(1920) /\ pr.frameHeight = FromInt(1080)
  /\ pr.containerWidth = FromInt(800) /\ pr.containerHeight = FromInt(450)
BoxDrawn == canvas.kind = "viewer" /\ Len(canvas.boxes) = 1
\* the rectangle of a box under scale factors sx and sy
RectOf(bbox, sx, sy) ==
  [x |-> FMul(FromInt(bbox.x1), sx), y |-> FMul(FromInt(bbox.y1), sy),
   w |-> FMul(FSub(FromInt(bbox.x2), FromInt(bbox.x1)), sx),
   h |-> FMul(FSub(FromInt(bbox.y2), FromInt(bbox.y1)), sy)]
RectDrawn(op) == [x |-> op.x, y |-> op.y, w |-> op.w, h |-> op.h]
PerAxis(pr) ==
  RectOf(pr.detections[1].bbox,
         FDiv(pr.containerWidth, pr.frameWidth),
         FDiv(pr.containerHeight, pr.frameHeight))
\* v is n/3 up to two units in its last place
NearThird(v, n) ==
  IsNum(v) /\ v.e <= 0 /\ Abs(3 * v.m - n * 2^(0 - v.e)) <= 6

\* C14 as stated: the box is drawn at the per-axis scaled rectangle, which
\* in the scenario is x = y = 125/3 and w = h = 250/3
C14_BoxAtExactThirds ==
  (BoxDrawn /\ PositiveDims(props)) =>
    /\ RectDrawn(canvas.boxes[1]) = PerAxis(props)
    /\ ScenarioDims(props) =>
         /\ canvas.boxes[1].x = FDiv(FromInt(125), FromInt(3))
         /\ canvas.boxes[1].y = FDiv(FromInt(125), FromInt(3))
         /\ canvas.boxes[1].w = FDiv(FromInt(250), FromInt(3))
         /\ canvas.boxes[1].h = FDiv(FromInt(250), FromInt(3))

\* C14: with positive dimensions the box is drawn at x1*scaleX, y1*scaleY
\* with width (x2-x1)*scaleX and height (y2-y1)*scaleY, each axis scaled by
\* its own quotient; in the scenario x = y and w = h, equal to 125/3 and
\* 250/3 up to rounding
C14_BoxPerAxis ==
  (BoxDrawn /\ PositiveDims(props)) =>
    /\ RectDrawn(canvas.boxes[1]) = PerAxis(props)
    /\ ScenarioDims(props) =>
         /\ canvas.boxes[1].x = canvas.boxes[1].y
         /\ canvas.boxes[1].w = canvas.boxes[1].h
         /\ NearThird(canvas.boxes[1].x, 125)
         /\ NearThird(canvas.boxes[1].w, 250)

\* the scenario's box has been drawn
C14_Witness == BoxDrawn /\ ScenarioDims(props)

\* ---- properties of the dimension guards
\* the quotient of two dimensions, each replaced by d when zero or missing
GuardedScale(c, f, d) ==
  FDiv(IF c \in {Zero, NaN, UndefinedN} THEN FromInt(d) ELSE c,
       IF f \in {Zero, NaN, UndefinedN} THEN FromInt(d) ELSE f)

\* C15: whatever dimensions a compositor is given, 0, NaN and undefined
\* included, the scale factors it has used are finite and non-zero, a zero or
\* missing width having been replaced by 640 and a height by 360, and the
\* coordinates it produced are numbers
C15_ScalesFiniteNonZero ==
  /\ canvas.kind = "viewer" =>
       /\ FiniteNonZero(ScaleX(props)) /\ FiniteNonZero(ScaleY(props))
       /\ ScaleX(props) = GuardedScale(props.containerWidth, props.frameWidth, 640)
       /\ ScaleY(props) = GuardedScale(props.containerHeight, props.frameHeight, 360)
       /\ \A i \in DOMAIN canvas.boxes :
            /\ IsNum(canvas.boxes[i].x) /\ IsNum(canvas.boxes[i].y)
            /\ IsNum(canvas.boxes[i].w) /\ IsNum(canvas.boxes[i].h)
  /\ mapped.kind = "mapped" =>
       /\ FiniteNonZero(EditorScaleX(props)) /\ FiniteNonZero(EditorScaleY(props))
       /\ EditorScaleX(props) = GuardedScale(props.containerWidth, props.frameWidth, 640)
       /\ EditorScaleY(props) = GuardedScale(props.containerHeight, props.frameHeight, 360)
       /\ IsNum(mapped.back.x) /\ IsNum(mapped.back.y)

\* both compositors have worked with a zero frame width and a NaN
\* container height
C15_Witness ==
  /\ canvas.kind = "viewer" /\ mapped.kind = "mapped"
  /\ props.frameWidth = Zero /\ props.containerHeight = NaN
  /\ props.frameHeight = UndefinedN

\* ================================================== what the canvases show
MaxDrawn == 2
SeqsUpTo(S, n) == UNION {[1..k -> S] : k \in 0..n}
Triangle == <<[x |-> 100, y |-> 100], [x |-> 300, y |-> 100],
              [x |-> 300, y |-> 300]>>
Segment == <<[x |-> 500, y |-> 40], [x |-> 520, y |-> 80]>>
\* a traffic-light zone the backend reports as red
RedLight(points) ==
  [MakeZone("zone_0", "Light", points, "traffic_light", "", 0)
     EXCEPT !.is_red_light = TRUE]
\* zones as GET /api/detection/zones can return them: drawable ones, and
\* ones with too few points
ZonePool ==
  {RedLight(Triangle), RedLight(Segment),
   MakeZone("zone_1", "Stop", Triangle, "stop_line", "zone_0", 1),
   MakeZone("zone_2", "Park", Triangle, "parking", "", 2),
   MakeZone("zone_3", "Dot", <<>>, "normal", "", 3)}
BoxOf(t) == [bbox |-> [x1 |-> 100, y1 |-> 100, x2 |-> 300, y2 |-> 300],
             class_name |-> "car", track_id |-> t]
ViolationOf(t) == [track_id |-> t, duration_seconds |-> 42]
TrackIds == {Track(1), Track(2), NullTrack, UndefinedTrack}
DetectionPool == {BoxOf(t) : t \in TrackIds}
ViolationPool == {ViolationOf(t) : t \in TrackIds}

PropsOf(zs, ds, vs) ==
  [frameWidth |-> FromInt(1920), frameHeight |-> FromInt(1080),
   containerWidth |-> FromInt(800), containerHeight |-> FromInt(450),
   zones |-> zs, detections |-> ds, violations |-> vs]

InitPaint ==
  /\ PageIdle /\ IndexIdle /\ SearchIdle
  /\ \/ \E zs \in SeqsUpTo(ZonePool, MaxDrawn) :
          props = PropsOf(zs, <<BoxOf(Track(1))>>, <<ViolationOf(Track(1))>>)
     \/ \E ds \in SeqsUpTo(DetectionPool, MaxDrawn),
           vs \in SeqsUpTo(ViolationPool, MaxDrawn) :
          props = PropsOf(<<>>, ds, vs)
  /\ canvas = NoCanvas
  /\ mapped = NoMapping

NextPaint ==
  \/ RepaintViewer
  \/ RepaintEditor

SpecPaint == InitPaint /\ [][NextPaint]_vars

\* ---- properties of the zone overlay
Short(zone) == Len(zone.points) < 3
WithoutShort(pr) ==
  [pr EXCEPT !.zones = SelectSeq(pr.zones, LAMBDA z : ~Short(z))]
Threw(ops) == \E i \in DOMAIN ops : ops[i].op = "TypeError"

\* C16: a zone with fewer than 3 points is skipped without an error by both
\* compositors, and every other zone is drawn exactly as if the short zone
\* were not in the list
C16_ShortZoneIgnored ==
  /\ canvas.kind = "viewer" =>
       /\ ~Threw(canvas.zones)
       /\ canvas.zones = DrawViewer(WithoutShort(props)).zones
  /\ canvas.kind = "editor" =>
       /\ ~Threw(canvas.zones)
       /\ canvas.zones =
            DrawEditor(WithoutShort(props), isEditing, currentPoints).zones

\* ---- properties of the violation highlight
RenderedAsViolation(op) ==
  op.strokeStyle = VIOLATION_COLOR \/ op.lineWidth = 4 \/ op.callout # 0 - 1
FullyHighlighted(op) ==
  op.strokeStyle = VIOLATION_COLOR /\ op.lineWidth = 4 /\ op.callout # 0 - 1
Listed(t, vs) == \E j \in DOMAIN vs : vs[j].track_id = t

\* C17: a detection whose track_id is null is never drawn as a violation,
\* whatever the violations list holds, entries without a track id included
C17_NullTrackNeverViolation ==
  canvas.kind = "viewer" =>
    \A i \in DOMAIN props.detections :
      props.detections[i].track_id = NullTrack =>
        ~RenderedAsViolation(canvas.boxes[i])

\* a detection with a null track_id was drawn while a violation entry
\* carried a null track_id too
C17_Witness ==
  /\ canvas.kind = "viewer"
  /\ \E i \in DOMAIN props.detections : props.detections[i].track_id = NullTrack
  /\ Listed(NullTrack, props.violations)

\* C18 as stated: a detection is drawn as a violation exactly when its
\* track_id is among the track_ids of the violations list
C18_ViolationIffListed ==
  canvas.kind = "viewer" =>
    \A i \in DOMAIN props.detections :
      RenderedAsViolation(canvas.boxes[i])
        <=> Listed(props.detections[i].track_id, props.violations)

\* C18: a detection is drawn as a violation (colour, line width and callout)
\* exactly when its track_id is not null and some entry of the violations
\* list carries it, wherever in the list and however often
C18_ViolationIffNonNullListed ==
  canvas.kind = "viewer" =>
    \A i \in DOMAIN props.detections :
      /\ RenderedAsViolation(canvas.boxes[i])
           <=> /\ props.detections[i].track_id # NullTrack
               /\ Listed(props.detections[i].track_id, props.violations)
      /\ RenderedAsViolation(canvas.boxes[i]) => FullyHighlighted(canvas.boxes[i])

\* a detection was highlighted on the strength of the second entry of a
\* two-entry violations list
C18_Witness ==
  /\ canvas.kind = "viewer"
  /\ Len(props.violations) = 2
  /\ \E i \in DOMAIN props.detections :
       /\ RenderedAsViolation(canvas.boxes[i])
       /\ props.violations[1].track_id # props.detections[i].track_id
       /\ props.violations[2].track_id = props.detections[i].track_id

\* ================================================== Index: selected cameras
MaxSelected == 2
\* a stored string as its sequence of JSON tokens; a camera object is one
\* token, "A" or "B"
Item(text) == [kind |-> "item", text |-> text]
CameraTokens == {"A", "B"}
Atoms == CameraTokens \cup {"1", "null"}
SyntaxError == [kind |-> "SyntaxError", items |-> <<>>]
\* JSON.parse: white space is insignificant; a text is one value; an array
\* is "[", values separated by ",", "]"
Parse(text) ==
  LET t == SelectSeq(text, LAMBDA tok : tok # " ")
      n == Len(t)
  IN IF n = 0 THEN SyntaxError
     ELSE IF n = 1
     THEN (IF t[1] \in Atoms THEN [kind |-> "value", items |-> <<t[1]>>]
           ELSE SyntaxError)
     ELSE IF t[1] # "[" \/ t[n] # "]" THEN SyntaxError
     ELSE IF n = 2 THEN [kind |-> "array", items |-> <<>>]
     ELSE IF /\ n % 2 = 1
             /\ \A i \in 2..(n - 1) :
                  IF i % 2 = 0 THEN t[i] \in Atoms ELSE t[i] = ","
     THEN [kind |-> "array", items |-> [i \in 1..((n - 1) \div 2) |-> t[2 * i]]]
     ELSE SyntaxError
\* JSON.stringify of an array: no white space
RECURSIVE Joined(_)
Joined(list) ==
  IF list = <<>> THEN <<>>
  ELSE IF Len(list) = 1 THEN list
  ELSE <<Head(list), ",">> \o Joined(Tail(list))
Stringify(list) == <<"[">> \o Joined(list) \o <<"]">>

Uncaught(outcome) == outcome
\* try { ... } catch { /* ignore */ }
Caught(outcome) == IF outcome.kind = "throw" THEN NoUpdate ELSE outcome
\* the body of the load effect: the state update it makes, if any
LoadEffect(item) ==
  Caught(IF item = NoItem \/ item.text = <<>> THEN NoUpdate
         ELSE LET parsed == Parse(item.text)
              IN IF parsed = SyntaxError THEN [kind |-> "throw", list |-> <<>>]
                 ELSE IF parsed.kind = "array"
                 THEN [kind |-> "set", list |-> parsed.items]
                 ELSE NoUpdate)
\* the save effect
SaveEffect(list) == Item(Stringify(list))

\* selectedCameras.map((c) => c.id); a stored value that is no camera object
\* has no id
IdOf(c) == IF c \in CameraTokens THEN c ELSE "undefined"
IdsOf(list) == [i \in DOMAIN list |-> IdOf(list[i])]

\* first render and its effects: the load effect queues the stored list, the
\* save effect writes the still empty selection; the dialog is rendered with
\* it and takes its tempSelected from the still empty selection
IndexMount ==
  /\ indexPhase = "unmounted"
  /\ storedAtStart' = storage
  /\ selectedCameras' = <<>>
  /\ queuedCameras' = LoadEffect(storage)
  /\ IF LoadEffect(storage).kind = "throw"
     THEN indexPhase' = "crashed" /\ storage' = storage
     ELSE /\ indexPhase' = IF LoadEffect(storage).kind = "set" THEN "settling"
                           ELSE "ready"
          /\ storage' = SaveEffect(<<>>)
  /\ dialogOpen' = FALSE
  /\ tempSelected' = IdsOf(<<>>)
  /\ toggled' = FALSE
  /\ UNCHANGED <<pageVars, canvasVars>>

\* the render caused by the queued update, and the save effect after it
IndexRerender ==
  /\ indexPhase = "settling"
  /\ selectedCameras' = queuedCameras.list
  /\ queuedCameras' = NoUpdate
  /\ storage' = SaveEffect(queuedCameras.list)
  /\ indexPhase' = "ready"
  /\ UNCHANGED <<pageVars, canvasVars, storedAtStart, dialogVars>>

\* onCamerasChange from the dialog, the render and the save effect
OnCamerasChange(list) ==
  /\ indexPhase = "ready"
  /\ selectedCameras' = list
  /\ storage' = SaveEffect(list)
  /\ UNCHANGED <<pageVars, canvasVars, indexPhase, queuedCameras, storedAtStart,
                 dialogVars>>

\* leaving the page: the component state is gone, the storage stays
IndexUnmount ==
  /\ indexPhase = "ready"
  /\ indexPhase' = "unmounted"
  /\ selectedCameras' = <<>>
  /\ dialogOpen' = FALSE
  /\ tempSelected' = <<>>
  /\ toggled' = FALSE
  /\ UNCHANGED <<pageVars, canvasVars, storage, queuedCameras, storedAtStart>>

\* what may lie under the key when the page opens
StoredItems ==
  {NoItem} \cup
  {Item(t) : t \in {<<>>, <<"[", "]">>, <<"[", "A", "]">>,
                    <<"[", "A", ",", "B", "]">>,
                    <<"[", " ", "B", ",", " ", "A", " ", "]">>,
                    <<"[", "1", "]">>,
                    <<"A">>, <<"null">>, <<"x">>,
                    <<"[", "A">>, <<"[", "A", ",", "]">>}}

InitIndex ==
  /\ PageIdle /\ CanvasIdle /\ SearchIdle
  /\ storage \in StoredItems
  /\ selectedCameras = <<>>
  /\ indexPhase = "unmounted"
  /\ queuedCameras = NoUpdate
  /\ storedAtStart = NoItem
  /\ DialogIdle

NextIndex ==
  \/ IndexMount
  \/ IndexRerender
  \/ \E list \in SeqsUpTo(CameraTokens, MaxSelected) : OnCamerasChange(list)
  \/ IndexUnmount

SpecIndex == InitIndex /\ [][NextIndex]_vars

\* ---- properties of the stored selection
\* the item is a JSON text of exactly this list
Holds(item, list) ==
  item # NoItem /\ Parse(item.text) = [kind |-> "array", items |-> list]
ValidArray(item) ==
  item # NoItem /\ item.text # <<>> /\ Parse(item.text).kind = "array"

RenderedMediaVideoKept(cam, det, sf) ==
  IF ~HasUrl(cam) THEN {}
  ELSE IF IsM3u8(cam)
       THEN {"video"} \cup (IF det /\ Truthy(sf) THEN {"annotated"} ELSE {})
       ELSE {"snapshot"}
\* the media elements the render returns inside the container
RenderedMedia(cam, det, sf) ==
  IF ~HasUrl(cam) THEN {}
  ELSE (IF IsM3u8(cam) /\ det /\ Truthy(sf) THEN {"annotated"} ELSE {})
       \cup (IF IsM3u8(cam) /\ ~(det /\ Truthy(sf)) THEN {"video"} ELSE {})
       \cup (IF ~IsM3u8(cam) THEN {"snapshot"} ELSE {})
\* isDetecting && result && !isEditing && !syncedFrame
OverlayShown(cam, det, res, editing, sf) ==
  HasUrl(cam) /\ det /\ Truthy(res) /\ ~editing /\ ~Truthy(sf)

\* C21: with a non-empty camera URL exactly one media surface is displayed:
\* the snapshot image on a non-stream camera, the annotated frame on a stream
\* camera with detection on and a synced frame, the video element on a
\* stream camera otherwise
C21_OneSurface ==
  (mounted /\ HasUrl(camera)) =>
    LET surfaces == RenderedMedia(camera, isDetecting, syncedFrame)
    IN /\ Cardinality(surfaces) = 1
       /\ "snapshot" \in surfaces <=> ~IsM3u8(camera)
       /\ "annotated" \in surfaces
            <=> (IsM3u8(camera) /\ isDetecting /\ Truthy(syncedFrame))
       /\ "video" \in surfaces
            <=> (IsM3u8(camera) /\ ~(isDetecting /\ Truthy(syncedFrame)))

\* the annotated frame is on display
C21_Witness ==
  /\ mounted /\ HasUrl(camera)
  /\ RenderedMedia(camera, isDetecting, syncedFrame) = {"annotated"}

\* C30: the annotated frame is held only while detection is on for a stream
\* camera, so that on a non-stream camera with detection on, a result
\* present and the editor inactive the detection overlay is displayed
C30_FrameOnlyWhileStreamDetecting ==
  mounted =>
    /\ Truthy(syncedFrame) => (isDetecting /\ IsM3u8(camera))
    /\ (HasUrl(camera) /\ ~IsM3u8(camera) /\ isDetecting /\ Truthy(result)
          /\ ~isEditing)
         => OverlayShown(camera, isDetecting, result, isEditing, syncedFrame)

SnapshotCameras == {CamA, CamC}
InitSnapshot ==
  /\ \E c0 \in SnapshotCameras : PageInit(c0, "mse", EmptyStore, TRUE)
  /\ lastEvent = Unrecorded
  /\ now = 0 /\ sentUrls = <<>>
  /\ IndexIdle /\ CanvasIdle /\ SearchIdle

NextSnapshot ==
  \/ ToggleDetection
  \/ \E c2 \in SnapshotCameras : SwitchCamera(c2)
  \/ \E t \in timers : DetectTick(t)
  \/ \E c \in Cameras, a \in DetectAnswers : DetectResponse(c, a)
  \/ Unmount

SpecSnapshot == InitSnapshot /\ [][NextSnapshot]_vars

\* the url is the camera's url with its old t parameters taken out and
\* t = at put at the end
FreshlyBusted(u, url, at) ==
  /\ Len(u) >= 4
  /\ u[1] = Text(url.path) /\ u[2] = Text(url.ext)
  /\ u[Len(u) - 1].kind = "sep"
  /\ u[Len(u)] = Param("t", at, TRUE)
  /\ Cardinality({i \in DOMAIN u : u[i].kind = "param" /\ u[i].k = "t"}) = 1
  /\ \A i \in DOMAIN url.query :
       url.query[i].k # "t" => \E j \in DOMAIN u : u[j] = url.query[i]
DetectTimersOf(tm) == {t \in tm : t.kind = "detect"}

\* C23: toggling detection on for a non-stream camera fires one request in
\* that very step and leaves a single detection timer; each tick of that
\* timer, 3 s after the last, fires exactly one further request; no request
\* is fired while detection is off; and every request carries the camera's
\* url cache-busted with the time of the request
C23_ImmediateThenPerTick ==
  [][/\ (mounted /\ ~isDetecting /\ isDetecting' /\ ~IsM3u8(camera)) =>
          /\ Len(sentUrls') = Len(sentUrls) + 1
          /\ detectReqs'[camera] = detectReqs[camera] + 1
          /\ now' < now + DetectPeriod
     /\ (mounted' /\ isDetecting' /\ ~IsM3u8(camera')) =>
          /\ Cardinality(DetectTimersOf(timers')) = 1
          /\ \A t \in DetectTimersOf(timers') : t.cam = camera'
     /\ \A t \in timers :
          DetectTick(t) =>
            /\ isDetecting /\ t.cam = camera
            /\ now' = now + DetectPeriod
            /\ Len(sentUrls') = Len(sentUrls) + 1
            /\ detectReqs'[camera] = detectReqs[camera] + 1
     /\ (~isDetecting /\ ~isDetecting') => sentUrls' = sentUrls
     /\ Len(sentUrls') <= Len(sentUrls) + 1
     /\ sentUrls' # sentUrls =>
          FreshlyBusted(sentUrls'[Len(sentUrls')], camera'.url, now')]_vars

\* on a camera whose url already carries a t parameter, the immediate request
\* and two ticks have fired
C23_Witness ==
  /\ mounted /\ isDetecting /\ camera = CamC
  /\ Len(sentUrls) = 3
  /\ now > 2 * DetectPeriod

\* ================================================== in-progress polygon
\* The editor's drawing session alone: every handler that writes the
\* in-progress zone, with two places to click.
DrawPoints == ClickPoints \cup {[x |-> 200, y |-> 100]}
NextDraw ==
  \/ StartEditing
  \/ \E p \in DrawPoints : HandleCanvasClick(p)
  \/ HandleUndo
  \/ \E n \in ZoneNames : SetZoneName(n)
  \/ \E t \in ZoneTypes : SetZoneType(t)
  \/ \E id \in LinkOptions(zones) : SetLinkedTrafficLight(id)
  \/ HandleSaveZone
  \/ HandleCancel
  \/ \E m \in zoneReqs, o \in BackendOutcomes : ZoneResponse(m, o)

SpecDraw == InitEditor /\ [][NextDraw]_vars

PendingAtDefaults ==
  /\ currentPoints = <<>> /\ zoneName = ""
  /\ zoneType = "normal" /\ linkedTrafficLightId = ""

\* C24: outside drawing mode the in-progress point list is empty and the
\* pending name, role and link are at their defaults; cancel empties the
\* point list and hands nothing to onZoneAdd; a successful save hands
\* onZoneAdd a zone whose points are exactly the placed points, in order
C24_InProgressOnlyWhileEditing ==
  [][/\ ~isEditing => PendingAtDefaults
     /\ ~isEditing' => PendingAtDefaults'
     /\ HandleCancel => (zoneReqs' = zoneReqs /\ currentPoints' = <<>>)
     /\ (HandleSaveZone /\ saveAttempt'.outcome = "saved") =>
          /\ saveAttempt'.zone.points = currentPoints
          /\ zoneReqs' = zoneReqs \cup
               {ZoneMessage("addZone", camera, saveAttempt'.zone, "", <<>>)}
          /\ \A m \in zoneReqs' \ zoneReqs : m.zone.points = currentPoints]_vars

\* a polygon of three placed points, the second unlike the other two, has
\* been saved and the editor has left drawing mode
C24_Witness ==
  /\ ~isEditing
  /\ saveAttempt.outcome = "saved"
  /\ Len(saveAttempt.zone.points) = 3
  /\ saveAttempt.zone.points[1] # saveAttempt.zone.points[2]
  /\ saveAttempt.zone.points[1] = saveAttempt.zone.points[3]
  /\ \E m \in zoneReqs : m.api = "addZone" /\ m.zone = saveAttempt.zone

\* ================================================== roles of a new zone
\* the zones handleSaveZone has built: the one of the last save and those
\* on their way to the backend
CreatedZones ==
  {m.zone : m \in {r \in zoneReqs : r.api = "addZone"}}
  \cup (IF saveAttempt.outcome = "saved" THEN {saveAttempt.zone} ELSE {})
RoleFlags(z) ==
  {f \in {"is_parking_zone", "is_traffic_light", "is_stop_line"} : z[f]}

\* C26: a zone built by the editor carries at most one of the flags
\* is_parking_zone, is_traffic_light and is_stop_line, namely the one of the
\* role selected; its linked_traffic_light_id is non-null only if it is a
\* stop line; and its is_red_light is false
C26_OneRolePerNewZone ==
  \A z \in CreatedZones :
    /\ Cardinality(RoleFlags(z)) <= 1
    /\ z.linked_traffic_light_id # NullId => z.is_stop_line
    /\ ~z.is_red_light

\* a stop line linked to the stored traffic light has been built
C26_Witness ==
  \E z \in CreatedZones :
    /\ z.is_stop_line /\ ~z.is_parking_zone /\ ~z.is_traffic_light
    /\ z.linked_traffic_light_id = StoredLight.id

\* ================================================== fill colour by role
RedTints == {"rgba(255, 0, 0, 0.2)", "rgba(255, 0, 0, 0.25)",
             "rgba(255, 0, 0, 0.35)", "rgba(255, 0, 0, 0.4)"}
GreenTints == {"rgba(0, 255, 0, 0.2)", "rgba(0, 255, 0, 0.25)",
               "rgba(0, 255, 0, 0.35)"}
WhiteTints == {"rgba(255, 255, 255, 0.3)"}
\* the tints the role of zone z, in the list zs, calls for
TintsOfRole(z, zs) ==
  IF z.is_parking_zone THEN RedTints
  ELSE IF z.is_traffic_light
  THEN (IF z.is_red_light THEN RedTints ELSE GreenTints)
  ELSE IF z.is_stop_line
  THEN (IF \E l \in Range(zs) : l.id = z.linked_traffic_light_id /\ l.is_red_light
        THEN RedTints ELSE WhiteTints)
  ELSE GreenTints
FilledByRole(ops, zs) ==
  \A i \in DOMAIN ops :
    ops[i].op = "zone" => ops[i].fillStyle \in TintsOfRole(Unskipped(zs)[i], zs)

\* C25: in the detection overlay and in the editor overlay alike, every
\* zone painted is filled with the tint of its role: red for parking, red or
\* green by is_red_light for a traffic light, red for a stop line whose
\* linked light is red and white otherwise, green for a normal zone
C25_FillKeyedByRole ==
  canvas.kind \in {"viewer", "editor"} => FilledByRole(canvas.zones, props.zones)

\* ================================================== camera-select dialog
\* ALL_CAMERAS, by id
ALL_CAMERAS == <<"A", "B">>
indexKept == <<pageVars, canvasVars, indexPhase, queuedCameras, storedAtStart>>

\* "add camera" in the header: setDialogOpen(true)
OpenDialog ==
  /\ indexPhase = "ready" /\ ~dialogOpen
  /\ dialogOpen' = TRUE
  /\ UNCHANGED <<indexKept, storage, selectedCameras, tempSelected, toggled>>

\* the cancel button, or the dialog dismissed: onOpenChange(false)
CloseDialog ==
  /\ indexPhase = "ready" /\ dialogOpen
  /\ dialogOpen' = FALSE
  /\ UNCHANGED <<indexKept, storage, selectedCameras, tempSelected, toggled>>

\* handleToggleCamera
HandleToggleCamera(cameraId) ==
  /\ indexPhase = "ready" /\ dialogOpen
  /\ tempSelected' = IF \E i \in DOMAIN tempSelected : tempSelected[i] = cameraId
                     THEN SelectSeq(tempSelected, LAMBDA id : id # cameraId)
                     ELSE Append(tempSelected, cameraId)
  /\ toggled' = TRUE
  /\ UNCHANGED <<indexKept, storage, selectedCameras, dialogOpen>>

\* handleSave, the render of Index and its save effect
HandleSave ==
  /\ indexPhase = "ready" /\ dialogOpen
  /\ LET newCameras ==
           SelectSeq(ALL_CAMERAS,
                     LAMBDA cam : \E i \in DOMAIN tempSelected :
                                    tempSelected[i] = IdOf(cam))
     IN /\ selectedCameras' = newCameras
        /\ storage' = SaveEffect(newCameras)
  /\ dialogOpen' = FALSE
  /\ UNCHANGED <<indexKept, tempSelected, toggled>>

\* handleRemoveCamera, from the row of a selected camera
HandleRemoveCamera(cameraId) ==
  /\ indexPhase = "ready" /\ dialogOpen
  /\ \E i \in DOMAIN selectedCameras : IdOf(selectedCameras[i]) = cameraId
  /\ LET newCameras == SelectSeq(selectedCameras,
                                 LAMBDA cam : IdOf(cam) # cameraId)
     IN /\ selectedCameras' = newCameras
        /\ storage' = SaveEffect(newCameras)
  /\ tempSelected' = SelectSeq(tempSelected, LAMBDA id : id # cameraId)
  /\ UNCHANGED <<indexKept, dialogOpen, toggled>>

NextDialog ==
  \/ IndexMount
  \/ IndexRerender
  \/ IndexUnmount
  \/ OpenDialog
  \/ CloseDialog
  \/ \E id \in CameraTokens : HandleToggleCamera(id)
  \/ HandleSave
  \/ \E id \in CameraTokens \cup {"undefined"} : HandleRemoveCamera(id)

SpecDialog == InitIndex /\ [][NextDialog]_vars

\* C29: as long as no checkbox has been toggled, tempSelected holds the ids
\* of the selected cameras, also after the selection was loaded from
\* storage, and a save leaves the selected cameras as they are
C29_SaveWithoutToggleKeeps ==
  [][/\ (indexPhase' = "ready" /\ ~toggled') =>
          tempSelected' = IdsOf(selectedCameras')
     /\ (HandleSave /\ ~toggled) => selectedCameras' = selectedCameras]_vars

\* ================================================== typewriter title
\* TypewriterTitle.  A line is the list of its characters; lineIndex and
\* charIndex count from 0 as in the source.
searchKept == <<detectionVars, indexVars, canvasVars>>
\* lines.filter(Boolean)
SafeLines(lines) == SelectSeq(lines, LAMBDA l : l # <<>>)
\* currentLine.slice(0, n)
Slice(line, n) == SubSeq(line, 1, n)
\* safeLines.map(() => "")
Blank(lines) == [i \in DOMAIN lines |-> <<>>]
CurrentLine == IF lineIndex + 1 \in DOMAIN safeLines THEN safeLines[lineIndex + 1]
               ELSE <<>>
DoneLine == charIndex >= Len(CurrentLine)
IsLast == lineIndex = Len(safeLines) - 1
\* if (loop) return
ReturnsAtEnd(lp) == lp

\* first render and the first run of the effect, which sets the typing
\* timeout unless there is no line; timeouts of an earlier instance have
\* fired by then
TitleMount(lines, lp) ==
  /\ ~titleMounted /\ pending = {}
  /\ titleMounted' = TRUE
  /\ safeLines' = SafeLines(lines)
  /\ loop' = lp
  /\ lineIndex' = 0 /\ charIndex' = 0
  /\ shown' = Blank(SafeLines(lines))
  /\ pending' = IF Len(SafeLines(lines)) = 0 THEN {} ELSE {"type"}
  /\ UNCHANGED <<searchKept, composerVars>>

\* the timeout of speedMs fires: one more character is shown and the effect
\* runs again, or the line is done and the timeout of pauseMs is set
TitleType ==
  /\ titleMounted /\ "type" \in pending
  /\ IF ~DoneLine
     THEN /\ shown' = [shown EXCEPT ![lineIndex + 1] =
                         Slice(CurrentLine, charIndex + 1)]
          /\ charIndex' = charIndex + 1
          /\ pending' = {"type"}
     ELSE /\ pending' = {"pause"}
          /\ UNCHANGED <<shown, charIndex>>
  /\ UNCHANGED <<searchKept, composerVars, titleMounted, safeLines, loop,
                 lineIndex>>

\* the timeout of pauseMs fires; the effect's cleanup never clears it, so
\* it may fire on an unmounted component, where its updates are dropped
TitlePause ==
  /\ "pause" \in pending
  /\ IF ~titleMounted \/ (IsLast /\ ReturnsAtEnd(loop))
     THEN /\ pending' = pending \ {"pause"}
          /\ UNCHANGED <<shown, lineIndex, charIndex>>
     ELSE IF IsLast
     THEN /\ shown' = Blank(safeLines)
          /\ lineIndex' = 0 /\ charIndex' = 0
          /\ pending' = {"type"}
     ELSE /\ lineIndex' = lineIndex + 1 /\ charIndex' = 0
          /\ pending' = {"type"}
          /\ UNCHANGED shown
  /\ UNCHANGED <<searchKept, composerVars, titleMounted, safeLines, loop>>

\* leaving the Search page: the effect's cleanup clears the typing timeout
TitleUnmount ==
  /\ titleMounted
  /\ titleMounted' = FALSE
  /\ safeLines' = <<>> /\ loop' = TRUE
  /\ lineIndex' = 0 /\ charIndex' = 0 /\ shown' = <<>>
  /\ pending' = pending \ {"type"}
  /\ UNCHANGED <<searchKept, composerVars>>

\* line lists a page can pass: with and without empty lines, and none
LinePool ==
  {<<>>, << <<>> >>, << <<"a", "b", "c">> >>,
   << <<"a", "b">>, <<"c">> >>,
   << <<"a">>, <<>>, <<"b", "c">> >>,
   << <<"a">>, <<"b">>, <<"c">> >>,
   << <<"a", "a">>, <<"a">> >>,
   << <<>>, <<"b", "a">>, <<>>, <<"c", "c">> >>,
   << <<"c">>, <<"b", "a", "b">> >>}

InitTitle == PageIdle /\ IndexIdle /\ CanvasIdle /\ SearchIdle

NextTitle ==
  \/ \E lines \in LinePool, lp \in BOOLEAN : TitleMount(lines, lp)
  \/ TitleType
  \/ TitlePause
  \/ TitleUnmount

SpecTitle == InitTitle /\ [][NextTitle]_vars

\* C27: each typing step shows one more character of the current line and
\* leaves the other lines alone, the lines before it being complete; when
\* the pause after the last line has elapsed, the title with loop = true
\* blanks all lines and types again from the first, and the title with
\* loop = false stays as it is with nothing left to fire
C27_LoopRestartsTyping ==
  [][/\ (TitleType /\ ~DoneLine) =>
          /\ shown'[lineIndex + 1] = Slice(CurrentLine, charIndex + 1)
          /\ \A i \in DOMAIN shown :
               /\ i # lineIndex + 1 => shown'[i] = shown[i]
               /\ i < lineIndex + 1 => shown[i] = safeLines[i]
     /\ (TitlePause /\ titleMounted /\ IsLast) =>
          IF loop
          THEN /\ shown' = Blank(safeLines)
               /\ lineIndex' = 0 /\ charIndex' = 0
               /\ pending' = {"type"}
          ELSE /\ UNCHANGED <<shown, lineIndex, charIndex>>
               /\ pending' = {}]_vars

\* ================================================== chat composer
\* ChatComposer.  A file is known by its kind; an attachment is
\* [id, kind, previewUrl], with previewUrl 0 for undefined; object url k is
\* the k-th one URL.createObjectURL handed out, and objectUrls[k] counts the
\* calls of URL.revokeObjectURL on it.
MaxFiles == 3         \* files added to the composer in total
FileTypes == {"image/png", "video/mp4", "text/plain"}
\* detectKind
DetectKind(type) == IF type = "image/png" THEN "image"
                    ELSE IF type = "video/mp4" THEN "video"
                    ELSE "other"
HasPreview(kind) == kind = "image" \/ kind = "video"
\* text.trim(), on a list of characters
RECURSIVE TrimStart(_)
TrimStart(t) == IF t # <<>> /\ Head(t) = " " THEN TrimStart(Tail(t)) ELSE t
RECURSIVE TrimEnd(_)
TrimEnd(t) == IF t # <<>> /\ t[Len(t)] = " "
              THEN TrimEnd(SubSeq(t, 1, Len(t) - 1)) ELSE t
Trim(t) == TrimEnd(TrimStart(t))
Drafts == {"", " ", "cam "}
Chars(d) == IF d = "" THEN <<>>
            ELSE IF d = " " THEN <<" ">>
            ELSE <<"c", "a", "m", " ">>
\* canSend, with disabled at its default false
CanSend == Len(Trim(Chars(draft))) > 0 \/ Len(attachments) > 0
\* the urls with a previewUrl among the attachments list
PreviewUrls(list) == {list[i].previewUrl : i \in {j \in DOMAIN list : list[j].previewUrl # 0}}
\* URL.revokeObjectURL on each of the urls
Revoked(urls) == [k \in DOMAIN objectUrls |->
                    IF k \in urls THEN objectUrls[k] + 1 ELSE objectUrls[k]]
\* the attachments the cleanup of the mount effect sees: those of the first
\* render, its dependency list being empty
CleanupAttachments == <<>>

\* first render
ComposerMount ==
  /\ ~composerMounted
  /\ composerMounted' = TRUE
  /\ draft' = "" /\ attachments' = <<>>
  /\ UNCHANGED <<searchKept, titleVars, nextFile, objectUrls>>

\* the textarea's onChange
SetText(d) ==
  /\ composerMounted
  /\ draft' = d
  /\ UNCHANGED <<searchKept, titleVars, composerMounted, attachments, nextFile,
                 objectUrls>>

\* addFiles, from the picker, a drop or a paste
AddFiles(types) ==
  /\ composerMounted
  /\ nextFile + Len(types) <= MaxFiles + 1
  /\ LET withUrl == {i \in DOMAIN types : HasPreview(DetectKind(types[i]))}
         UrlOf(i) == Len(objectUrls) + Cardinality({j \in withUrl : j <= i})
         next == [i \in DOMAIN types |->
                    [id |-> nextFile + i - 1, kind |-> DetectKind(types[i]),
                     previewUrl |-> IF i \in withUrl THEN UrlOf(i) ELSE 0]]
     IN /\ attachments' = attachments \o next
        /\ objectUrls' = objectUrls \o [k \in 1..Cardinality(withUrl) |-> 0]
  /\ nextFile' = nextFile + Len(types)
  /\ UNCHANGED <<searchKept, titleVars, composerMounted, draft>>

\* removeAttachment
RemoveAttachment(id) ==
  /\ composerMounted
  /\ \E i \in DOMAIN attachments : attachments[i].id = id
  /\ objectUrls' = Revoked(PreviewUrls(SelectSeq(attachments, LAMBDA x : x.id = id)))
  /\ attachments' = SelectSeq(attachments, LAMBDA x : x.id # id)
  /\ UNCHANGED <<searchKept, titleVars, composerMounted, draft, nextFile>>

\* handleSubmit
HandleSubmit ==
  /\ composerMounted
  /\ IF ~CanSend THEN UNCHANGED <<draft, attachments, objectUrls>>
     ELSE /\ draft' = ""
          /\ objectUrls' = Revoked(PreviewUrls(attachments))
          /\ attachments' = <<>>
  /\ UNCHANGED <<searchKept, titleVars, composerMounted, nextFile>>

\* leaving the Search page: the cleanup of the mount effect
ComposerUnmount ==
  /\ composerMounted
  /\ composerMounted' = FALSE
  /\ objectUrls' = Revoked(PreviewUrls(CleanupAttachments))
  /\ draft' = "" /\ attachments' = <<>>
  /\ UNCHANGED <<searchKept, titleVars, nextFile>>

InitComposer == PageIdle /\ IndexIdle /\ CanvasIdle /\ SearchIdle

NextComposer ==
  \/ ComposerMount
  \/ \E d \in Drafts : SetText(d)
  \/ \E n \in 1..2 : \E types \in [1..n -> FileTypes] : AddFiles(types)
  \/ \E id \in 1..MaxFiles : RemoveAttachment(id)
  \/ HandleSubmit
  \/ ComposerUnmount

SpecComposer == InitComposer /\ [][NextComposer]_vars

\* C28: no preview url is revoked twice; a preview url whose attachment has
\* been removed or submitted has been revoked exactly once; and once the
\* composer is unmounted every preview url ever created has been revoked
\* exactly once
C28_PreviewUrlsRevokedOnce ==
  /\ \A k \in DOMAIN objectUrls : objectUrls[k] <= 1
  /\ \A k \in DOMAIN objectUrls :
       (composerMounted /\ k \notin PreviewUrls(attachments)) => objectUrls[k] = 1
  /\ ~composerMounted => \A k \in DOMAIN objectUrls : objectUrls[k] = 1

====
